---- MODULE Spec2Model ----
(***************************************************************************)
(* A model of the netcode.io wire-protocol core (go/netcode): the byte     *)
(* codec, the packet codec with its acceptance policy and replay window,   *)
(* and the connect tokens.                                                 *)
(*                                                                         *)
(* Representation.                                                         *)
(*   - A byte of memory is a cell [v, e, m]: v its value 0..255, e the     *)
(*     stack of cipher layers it is wrapped in, m the MAC it carries.      *)
(*     A plain byte has e = <<>> and m = <<>>.                             *)
(*   - A Go slice is [off, len, cap] over a backing array `mem` (a         *)
(*     sequence of cells); the nil slice is NilSlice.                      *)
(*   - A uint64 is the tuple of its 8 bytes, least significant first, so   *)
(*     that every 64-bit value is representable; `x >> (8*i)` truncated    *)
(*     to a byte is x[i+1] and `x & (0xFF << 8*i) != 0` is x[i+1] # 0.     *)
(*   - uint8, uint16 and uint32 values are naturals.                       *)
(***************************************************************************)
EXTENDS Integers, Sequences, FiniteSets, TLC

VARIABLES sq, tx, rx, replay, seen, accepted, tok, instance

vars == <<sq, tx, rx, replay, seen, accepted, tok, instance>>

(***************************************************************************)
(* Program constants                                                       *)
(***************************************************************************)
CONNECT_TOKEN_PRIVATE_BYTES == 1024
CHALLENGE_TOKEN_BYTES == 300
VERSION_INFO_BYTES == 13
USER_DATA_BYTES == 256
MAX_PACKET_BYTES == 1220
MAX_PAYLOAD_BYTES == 1200
REPLAY_PROTECTION_BUFFER_SIZE == 256
KEY_BYTES == 32
MAC_BYTES == 16
MAX_SERVERS_PER_CONNECT == 32
CONNECT_TOKEN_BYTES == 2048
ADDRESS_IPV4 == 1
ADDRESS_IPV6 == 2

ConnectionRequest == 0
ConnectionDenied == 1
ConnectionChallenge == 2
ConnectionResponse == 3
ConnectionKeepAlive == 4
ConnectionPayload == 5
ConnectionDisconnect == 6
ConnectionNumPackets == ConnectionDisconnect + 1

\* The widths the serializer names; their declarations are not among the
\* sources, the values are the widths of the Go types.
SizeUint8 == 1
SizeUint16 == 2
SizeUint32 == 4
SizeUint64 == 8

(***************************************************************************)
(* Bytes, slices and 64-bit values                                         *)
(***************************************************************************)
Byte(b) == [v |-> b, e |-> <<>>, m |-> <<>>]

IsPlain(c) == c.e = <<>> /\ c.m = <<>>

\* make([]byte, n): n zero bytes.
Zeros(n) == [i \in 1..n |-> Byte(0)]

\* A sequence of naturals as plain bytes, and back.
Bytes(s) == [i \in 1..Len(s) |-> Byte(s[i])]

Vals(cells) == [i \in 1..Len(cells) |-> cells[i].v]

VERSION_INFO == Bytes(<<78, 69, 84, 67, 79, 68, 69, 32, 49, 46, 48, 48, 0>>)

NilSlice == [off |-> 0, len |-> 0, cap |-> 0]

MakeSlice(n) == [off |-> 0, len |-> n, cap |-> n]

\* buf[a:] (a <= len(buf)) and buf[a:b] (a <= b <= cap(buf)).
From(buf, a) == [off |-> buf.off + a, len |-> buf.len - a, cap |-> buf.cap - a]

Cut(buf, a, b) == [off |-> buf.off + a, len |-> b - a, cap |-> buf.cap - a]

CutOk(buf, a, b) == 0 <= a /\ a <= b /\ b <= buf.cap

\* The cells a slice holds.
Content(mem, buf) == SubSeq(mem, buf.off + 1, buf.off + buf.len)

\* mem with `cells` stored from offset off on.
Store(mem, off, cells) ==
    SubSeq(mem, 1, off) \o cells \o SubSeq(mem, off + Len(cells) + 1, Len(mem))

RECURSIVE BitOr(_, _)
BitOr(a, b) ==
    IF a = 0 THEN b
    ELSE IF b = 0 THEN a
    ELSE (IF a % 2 = 1 \/ b % 2 = 1 THEN 1 ELSE 0) + 2 * BitOr(a \div 2, b \div 2)

U64Zero == <<0, 0, 0, 0, 0, 0, 0, 0>>

U64Max == <<255, 255, 255, 255, 255, 255, 255, 255>>

\* The 64-bit value of a natural below 2^24.
U64(n) == <<n % 256, (n \div 256) % 256, (n \div 65536) % 256, 0, 0, 0, 0, 0>>

U64Lt(a, b) == \E i \in 1..8 : a[i] < b[i] /\ \A j \in (i + 1)..8 : a[j] = b[j]

\* <= read as <.
U64LeStrict(a, b) == U64Lt(a, b)

U64Le(a, b) == a = b \/ U64Lt(a, b)

(***************************************************************************)
(* serializer.go                                                           *)
(* A write returns [mem, buf, err, panic], a read [buf, err, panic, out].  *)
(***************************************************************************)
WriteUint8(mem, buf, in) ==
    IF buf.len < SizeUint8
    THEN [mem |-> mem, buf |-> NilSlice, err |-> TRUE, panic |-> FALSE]
    ELSE [mem |-> Store(mem, buf.off, <<Byte(in)>>), buf |-> From(buf, SizeUint8),
          err |-> FALSE, panic |-> FALSE]

\* WriteUint16 with the high byte first.
WriteUint16BigEndian(mem, buf, in) ==
    IF buf.len < SizeUint16
    THEN [mem |-> mem, buf |-> NilSlice, err |-> TRUE, panic |-> FALSE]
    ELSE [mem |-> Store(mem, buf.off, <<Byte((in \div 256) % 256), Byte(in % 256)>>),
          buf |-> From(buf, SizeUint16), err |-> FALSE, panic |-> FALSE]

WriteUint16(mem, buf, in) ==
    IF buf.len < SizeUint16
    THEN [mem |-> mem, buf |-> NilSlice, err |-> TRUE, panic |-> FALSE]
    ELSE [mem |-> Store(mem, buf.off, <<Byte(in % 256), Byte((in \div 256) % 256)>>),
          buf |-> From(buf, SizeUint16), err |-> FALSE, panic |-> FALSE]

WriteUint32(mem, buf, in) ==
    IF buf.len < SizeUint32
    THEN [mem |-> mem, buf |-> NilSlice, err |-> TRUE, panic |-> FALSE]
    ELSE [mem |-> Store(mem, buf.off,
                        <<Byte(in % 256), Byte((in \div 256) % 256),
                          Byte((in \div 65536) % 256), Byte((in \div 16777216) % 256)>>),
          buf |-> From(buf, SizeUint32), err |-> FALSE, panic |-> FALSE]

WriteUint64(mem, buf, in) ==
    IF buf.len < SizeUint64
    THEN [mem |-> mem, buf |-> NilSlice, err |-> TRUE, panic |-> FALSE]
    ELSE [mem |-> Store(mem, buf.off, [i \in 1..SizeUint64 |-> Byte(in[i])]),
          buf |-> From(buf, SizeUint64), err |-> FALSE, panic |-> FALSE]

\* `in` is the content of the source slice.
WriteBytes(mem, buf, in) ==
    IF buf.len < Len(in)
    THEN [mem |-> mem, buf |-> NilSlice, err |-> TRUE, panic |-> FALSE]
    ELSE [mem |-> Store(mem, buf.off, in), buf |-> From(buf, Len(in)),
          err |-> FALSE, panic |-> FALSE]

\* in[i] for i < length: an index past the end of `in` panics.
WriteBytesN(mem, buf, in, length) ==
    IF buf.len < length
    THEN [mem |-> mem, buf |-> NilSlice, err |-> TRUE, panic |-> FALSE]
    ELSE IF Len(in) < length
    THEN [mem |-> mem, buf |-> buf, err |-> FALSE, panic |-> TRUE]
    ELSE [mem |-> Store(mem, buf.off, SubSeq(in, 1, length)), buf |-> From(buf, length),
          err |-> FALSE, panic |-> FALSE]

ReadUint8(mem, buf, out) ==
    IF buf.len < SizeUint8
    THEN [buf |-> NilSlice, err |-> TRUE, panic |-> FALSE, out |-> out]
    ELSE [buf |-> From(buf, SizeUint8), err |-> FALSE, panic |-> FALSE,
          out |-> mem[buf.off + 1].v]

\* *out |= ...: the bytes are OR-ed into the value the caller passed.
ReadUint16(mem, buf, out) ==
    IF buf.len < SizeUint16
    THEN [buf |-> NilSlice, err |-> TRUE, panic |-> FALSE, out |-> out]
    ELSE [buf |-> From(buf, SizeUint16), err |-> FALSE, panic |-> FALSE,
          out |-> BitOr(out, mem[buf.off + 1].v + 256 * mem[buf.off + 2].v)]

ReadUint32(mem, buf, out) ==
    IF buf.len < SizeUint32
    THEN [buf |-> NilSlice, err |-> TRUE, panic |-> FALSE, out |-> out]
    ELSE [buf |-> From(buf, SizeUint32), err |-> FALSE, panic |-> FALSE,
          out |-> BitOr(out, mem[buf.off + 1].v + 256 * mem[buf.off + 2].v
                             + 65536 * mem[buf.off + 3].v + 16777216 * mem[buf.off + 4].v)]

\* The guard compares with SizeUint8: a buffer of 1..7 bytes passes it and the
\* read of buf[len(buf)] panics (index out of range).
ReadUint64(mem, buf, out) ==
    IF buf.len < SizeUint8
    THEN [buf |-> NilSlice, err |-> TRUE, panic |-> FALSE, out |-> out]
    ELSE IF buf.len < 8
    THEN [buf |-> buf, err |-> FALSE, panic |-> TRUE, out |-> out]
    ELSE [buf |-> From(buf, SizeUint64), err |-> FALSE, panic |-> FALSE,
          out |-> [i \in 1..8 |-> BitOr(out[i], mem[buf.off + i].v)]]

\* *out = buf[0:length]: out is the content read.
ReadBytes(mem, buf, out, length) ==
    IF buf.len < length
    THEN [buf |-> NilSlice, err |-> TRUE, panic |-> FALSE, out |-> out]
    ELSE [buf |-> From(buf, length), err |-> FALSE, panic |-> FALSE,
          out |-> SubSeq(mem, buf.off + 1, buf.off + length)]

(***************************************************************************)
(* The AEAD (its source is not among the files; from the specification):   *)
(* encrypt(pt, aad, nonce, key) is len(pt) + 16 bytes, and only decrypt    *)
(* with the same aad, nonce and key on the same bytes returns pt.          *)
(***************************************************************************)
EncryptAead(message, additional, nonce, key) ==
    [i \in 1..Len(message) |->
        [message[i] EXCEPT !.e = <<<<key, nonce, i>>>> \o @]]
    \o [j \in 1..MAC_BYTES |->
        [v |-> 0, e |-> <<>>, m |-> <<key, nonce, additional, message, j>>]]

DecryptAead(ct, additional, nonce, key) ==
    IF Len(ct) < MAC_BYTES THEN [err |-> TRUE, out |-> <<>>]
    ELSE LET n == Len(ct) - MAC_BYTES
             unwrapped == \A i \in 1..n :
                 ct[i].e # <<>> /\ Head(ct[i].e) = <<key, nonce, i>>
             pt == [i \in 1..n |-> [ct[i] EXCEPT !.e = Tail(@)]]
         IN  IF unwrapped /\ \A j \in 1..MAC_BYTES :
                    ct[n + j] = [v |-> 0, e |-> <<>>,
                                 m |-> <<key, nonce, additional, pt, j>>]
             THEN [err |-> FALSE, out |-> pt]
             ELSE [err |-> TRUE, out |-> <<>>]

(***************************************************************************)
(* The replay window (its source is not among the files; from the          *)
(* specification, section 4.3).  s + 256 is not reduced modulo 2^64: the   *)
(* sequences the model presents are far below 2^64 - 256.                  *)
(***************************************************************************)
NewReplayProtection ==
    [mostRecent |-> U64Zero,
     received |-> [i \in 0..(REPLAY_PROTECTION_BUFFER_SIZE - 1) |-> U64Max]]

\* s + REPLAY_PROTECTION_BUFFER_SIZE <= mostRecent, on the bytes: adding 256
\* adds 1 to the value above the low byte.
RECURSIVE U64Inc(_, _)
U64Inc(a, i) ==
    IF i > 8 THEN a
    ELSE IF a[i] < 255 THEN [a EXCEPT ![i] = a[i] + 1]
    ELSE U64Inc([a EXCEPT ![i] = 0], i + 1)

TooOld(rp, sequence) ==
    /\ \E i \in 2..8 : sequence[i] < 255
    /\ U64Le(U64Inc(sequence, 2), rp.mostRecent)

AlreadyReceived(rp, sequence) ==
    IF TooOld(rp, sequence) THEN [rp |-> rp, rejected |-> TRUE]
    ELSE LET advanced == IF U64Lt(rp.mostRecent, sequence)
                         THEN [rp EXCEPT !.mostRecent = sequence] ELSE rp
             index == sequence[1]
         IN  IF advanced.received[index] = sequence
             THEN [rp |-> advanced, rejected |-> TRUE]
             ELSE [rp |-> [advanced EXCEPT !.received[index] = sequence],
                   rejected |-> FALSE]

(***************************************************************************)
(* packet.go: prefix byte and sequence                                     *)
(***************************************************************************)
\* A loop that runs to i < 8 instead of i < 7: no byte is reserved for 0.
sequenceNumberBytesRequiredAllZero(sequence) ==
    IF sequence = U64Zero THEN 0
    ELSE 8 - (CHOOSE i \in 0..7 : sequence[8 - i] # 0
                                   /\ \A j \in 0..(i - 1) : sequence[8 - j] = 0)

RECURSIVE maskLoop(_, _)
maskLoop(sequence, i) ==
    IF i < 7 /\ sequence[8 - i] = 0 THEN maskLoop(sequence, i + 1) ELSE i

sequenceNumberBytesRequired(sequence) == 8 - maskLoop(sequence, 0)

RECURSIVE writeSequenceBytes(_, _, _, _, _)
writeSequenceBytes(mem, buf, sequence, i, sequenceBytes) ==
    IF i < sequenceBytes
    THEN LET w == WriteUint8(mem, buf, sequence[i + 1])
         IN  writeSequenceBytes(w.mem, w.buf, sequence, i + 1, sequenceBytes)
    ELSE [mem |-> mem, buf |-> buf]

writePacketPrefix(mem, buf, type, sequence) ==
    LET written(prefixByte, l) ==
            [mem |-> l.mem, buf |-> l.buf, prefixByte |-> prefixByte, err |-> FALSE]
        prefixed(sequenceBytes, prefixByte, w) ==
            written(prefixByte,
                    writeSequenceBytes(w.mem, w.buf, sequence, 0, sequenceBytes))
        sized(sequenceBytes, prefixByte) ==
            IF sequenceBytes < 1 \/ sequenceBytes > 8
            THEN [mem |-> mem, buf |-> buf, prefixByte |-> 0, err |-> TRUE]
            ELSE prefixed(sequenceBytes, prefixByte, WriteUint8(mem, buf, prefixByte))
        counted(sequenceBytes) ==
            sized(sequenceBytes, BitOr(type, (sequenceBytes * 16) % 256))
    IN  counted(sequenceNumberBytesRequired(sequence))

RECURSIVE readSequenceBytes(_, _, _, _, _)
readSequenceBytes(mem, buf, sequence, i, sequenceBytes) ==
    IF i < sequenceBytes
    THEN LET r == ReadUint8(mem, buf, 0)
         IN  IF r.err THEN [buf |-> r.buf, err |-> TRUE, sequence |-> U64Zero]
             ELSE readSequenceBytes(mem, r.buf,
                      [sequence EXCEPT ![i + 1] = BitOr(@, r.out)], i + 1, sequenceBytes)
    ELSE [buf |-> buf, err |-> FALSE, sequence |-> sequence]

readSequence(mem, buf, packetLen, prefixByte) ==
    LET sequenceBytes == prefixByte \div 16
    IN  IF sequenceBytes < 1 \/ sequenceBytes > 8
        THEN [buf |-> buf, err |-> TRUE, sequence |-> U64Zero]
        ELSE IF packetLen < 1 + sequenceBytes + MAC_BYTES
        THEN [buf |-> buf, err |-> TRUE, sequence |-> U64Zero]
        ELSE readSequenceBytes(mem, buf, U64Zero, 0, sequenceBytes)

\* packetCryptData with the prefix byte left out of the additional data.
packetCryptDataNoPrefix(prefixByte, protocolId, sequence) ==
    LET protocol(w) == WriteUint64(w.mem, w.buf, protocolId).mem
    IN  [additionalData |->
             protocol(WriteBytesN(Zeros(VERSION_INFO_BYTES + 8 + 1),
                                  MakeSlice(VERSION_INFO_BYTES + 8 + 1),
                                  VERSION_INFO, VERSION_INFO_BYTES)),
         nonce |-> WriteUint64(Zeros(SizeUint64), MakeSlice(SizeUint64), sequence).mem]

packetCryptData(prefixByte, protocolId, sequence) ==
    LET prefix(w) == WriteUint8(w.mem, w.buf, prefixByte).mem
        protocol(w) == prefix(WriteUint64(w.mem, w.buf, protocolId))
    IN  [additionalData |->
             protocol(WriteBytesN(Zeros(VERSION_INFO_BYTES + 8 + 1),
                                  MakeSlice(VERSION_INFO_BYTES + 8 + 1),
                                  VERSION_INFO, VERSION_INFO_BYTES)),
         nonce |-> WriteUint64(Zeros(SizeUint64), MakeSlice(SizeUint64), sequence).mem]

\* EncryptAead's error return: the cipher takes keys of KEY_BYTES bytes.
EncryptAeadErr(key) == Len(key) # KEY_BYTES

\* EncryptAead leaves the ciphertext and tag in encryptedBuffer, a slice of its
\* own; WriteBytes copies it to the front of `buffer`, its error dropped.
encryptPacket(mem, buffer, encryptedStart, encryptedFinish, prefixByte, protocolId, sequence, writePacketKey) ==
    LET copied(encryptedBuffer) ==
            [mem |-> WriteBytes(mem, buffer, encryptedBuffer).mem,
             ret |-> Len(encryptedBuffer), err |-> FALSE, panic |-> FALSE]
        sealed(cd) ==
            copied(EncryptAead(Content(mem, Cut(buffer, encryptedStart, encryptedFinish)),
                               cd.additionalData, cd.nonce, writePacketKey))
    IN  IF ~CutOk(buffer, encryptedStart, encryptedFinish)
        THEN [mem |-> mem, ret |-> 0, err |-> FALSE, panic |-> TRUE]
        ELSE IF EncryptAeadErr(writePacketKey)
        THEN [mem |-> mem, ret |-> -1, err |-> TRUE, panic |-> FALSE]
        ELSE sealed(packetCryptData(prefixByte, protocolId, sequence))

(***************************************************************************)
(* packet.go: acceptance and decryption                                    *)
(* A key is a sequence of cells, NilKey the nil slice.  allowedPackets is  *)
(* a function on 0..6.  A replay window argument is [present, rp]; with    *)
(* present = FALSE the pointer is nil.                                     *)
(***************************************************************************)
NilKey == <<>>

\* validateSequence with the window consulted for Payload and Disconnect only.
validateSequenceAfterKeepAlive(packetLen, prefixByte, sequence, readPacketKey, allowedPackets, replayProtection) ==
    LET packetType == prefixByte % 16
    IN  IF readPacketKey = NilKey \/ packetLen < 1 + 1 + MAC_BYTES
           \/ packetType >= ConnectionNumPackets
        THEN [err |-> TRUE, replay |-> replayProtection]
        ELSE IF allowedPackets[packetType] = 0
        THEN [err |-> TRUE, replay |-> replayProtection]
        ELSE IF replayProtection.present /\ packetType > ConnectionKeepAlive
        THEN LET a == AlreadyReceived(replayProtection.rp, sequence)
             IN  [err |-> a.rejected,
                  replay |-> [replayProtection EXCEPT !.rp = a.rp]]
        ELSE [err |-> FALSE, replay |-> replayProtection]

\* validateSequence with the window's verdict dropped.
validateSequenceVerdictDropped(packetLen, prefixByte, sequence, readPacketKey, allowedPackets, replayProtection) ==
    LET packetType == prefixByte % 16
    IN  IF readPacketKey = NilKey \/ packetLen < 1 + 1 + MAC_BYTES
           \/ packetType >= ConnectionNumPackets
        THEN [err |-> TRUE, replay |-> replayProtection]
        ELSE IF allowedPackets[packetType] = 0
        THEN [err |-> TRUE, replay |-> replayProtection]
        ELSE IF replayProtection.present /\ packetType >= ConnectionKeepAlive
        THEN LET a == AlreadyReceived(replayProtection.rp, sequence)
             IN  [err |-> FALSE,
                  replay |-> [replayProtection EXCEPT !.rp = a.rp]]
        ELSE [err |-> FALSE, replay |-> replayProtection]

\* validateSequence without the allowed-types check.
validateSequenceAllAllowed(packetLen, prefixByte, sequence, readPacketKey, allowedPackets, replayProtection) ==
    LET packetType == prefixByte % 16
    IN  IF readPacketKey = NilKey \/ packetLen < 1 + 1 + MAC_BYTES
           \/ packetType >= ConnectionNumPackets
        THEN [err |-> TRUE, replay |-> replayProtection]
        ELSE IF replayProtection.present /\ packetType >= ConnectionKeepAlive
        THEN LET a == AlreadyReceived(replayProtection.rp, sequence)
             IN  [err |-> a.rejected,
                  replay |-> [replayProtection EXCEPT !.rp = a.rp]]
        ELSE [err |-> FALSE, replay |-> replayProtection]

\* validateSequence with the window consulted for every type.
validateSequenceEveryType(packetLen, prefixByte, sequence, readPacketKey, allowedPackets, replayProtection) ==
    LET packetType == prefixByte % 16
    IN  IF readPacketKey = NilKey \/ packetLen < 1 + 1 + MAC_BYTES
           \/ packetType >= ConnectionNumPackets
        THEN [err |-> TRUE, replay |-> replayProtection]
        ELSE IF allowedPackets[packetType] = 0
        THEN [err |-> TRUE, replay |-> replayProtection]
        ELSE IF replayProtection.present
        THEN LET a == AlreadyReceived(replayProtection.rp, sequence)
             IN  [err |-> a.rejected,
                  replay |-> [replayProtection EXCEPT !.rp = a.rp]]
        ELSE [err |-> FALSE, replay |-> replayProtection]

\* validateSequence without the check for a nil receive key.
validateSequenceAnyKey(packetLen, prefixByte, sequence, readPacketKey, allowedPackets, replayProtection) ==
    LET packetType == prefixByte % 16
    IN  IF packetLen < 1 + 1 + MAC_BYTES \/ packetType >= ConnectionNumPackets
        THEN [err |-> TRUE, replay |-> replayProtection]
        ELSE IF allowedPackets[packetType] = 0
        THEN [err |-> TRUE, replay |-> replayProtection]
        ELSE IF replayProtection.present /\ packetType >= ConnectionKeepAlive
        THEN LET a == AlreadyReceived(replayProtection.rp, sequence)
             IN  [err |-> a.rejected,
                  replay |-> [replayProtection EXCEPT !.rp = a.rp]]
        ELSE [err |-> FALSE, replay |-> replayProtection]

validateSequence(packetLen, prefixByte, sequence, readPacketKey, allowedPackets, replayProtection) ==
    LET packetType == prefixByte % 16
    IN  IF readPacketKey = NilKey
        THEN [err |-> TRUE, replay |-> replayProtection]
        ELSE IF packetLen < 1 + 1 + MAC_BYTES
        THEN [err |-> TRUE, replay |-> replayProtection]
        ELSE IF packetType >= ConnectionNumPackets
        THEN [err |-> TRUE, replay |-> replayProtection]
        ELSE IF allowedPackets[packetType] = 0
        THEN [err |-> TRUE, replay |-> replayProtection]
        ELSE IF replayProtection.present /\ packetType >= ConnectionKeepAlive
        THEN LET a == AlreadyReceived(replayProtection.rp, sequence)
             IN  [err |-> a.rejected,
                  replay |-> [replayProtection EXCEPT !.rp = a.rp]]
        ELSE [err |-> FALSE, replay |-> replayProtection]

\* Returns [err, panic, sequence, out, replay]: out the decrypted bytes, replay
\* the window as validateSequence left it, whatever happens after it.
decryptPacket(mem, packetBuffer, packetLen, protocolId, readPacketKey, allowedPackets, replayProtection) ==
    LET fail(rp) == [err |-> TRUE, panic |-> FALSE, sequence |-> U64Zero,
                     out |-> <<>>, replay |-> rp]
        decrypted(rs, vs, dec) ==
            IF dec.err THEN fail(vs.replay)
            ELSE [err |-> FALSE, panic |-> FALSE, sequence |-> rs.sequence,
                  out |-> dec.out, replay |-> vs.replay]
        taken(rs, vs, cd, rb) ==
            IF rb.err THEN fail(vs.replay)
            ELSE decrypted(rs, vs, DecryptAead(rb.out, cd.additionalData, cd.nonce,
                                               readPacketKey))
        sized(rs, vs, cd, encryptedSize) ==
            IF encryptedSize < MAC_BYTES THEN fail(vs.replay)
            ELSE taken(rs, vs, cd, ReadBytes(mem, rs.buf, Zeros(encryptedSize),
                                             encryptedSize))
        validated(prefixByte, rs, vs) ==
            IF vs.err THEN fail(vs.replay)
            ELSE sized(rs, vs, packetCryptData(prefixByte, protocolId, rs.sequence),
                       packetLen - (packetBuffer.len - rs.buf.len))
        sequenced(prefixByte, rs) ==
            IF rs.err THEN fail(replayProtection)
            ELSE validated(prefixByte, rs,
                           validateSequence(packetLen, prefixByte, rs.sequence,
                                            readPacketKey, allowedPackets,
                                            replayProtection))
        prefixed(r0) ==
            IF r0.err THEN fail(replayProtection)
            ELSE sequenced(r0.out, readSequence(mem, r0.buf, packetLen, r0.out))
    IN  prefixed(ReadUint8(mem, packetBuffer, 0))

(***************************************************************************)
(* connect_token_shared.go                                                 *)
(* An address is [ip, port]: ip the 4 bytes of an IPv4 address (To4 is not *)
(* nil) or the 16 bytes of an IPv6 one.  `shared` is any record with the   *)
(* fields ServerAddrs, ClientKey, ServerKey.                               *)
(***************************************************************************)
ZeroAddr == [ip |-> <<>>, port |-> 0]

\* copy(dst, src): min(len(dst), len(src)) elements; a nil dst takes none.
Copy(dst, src) == [i \in 1..Len(dst) |-> IF i <= Len(src) THEN src[i] ELSE dst[i]]

\* The writes of WriteShared drop their errors: after a failed write the
\* buffer is nil and the writes that follow fail in turn.
RECURSIVE writeIPv4(_, _, _, _)
writeIPv4(mem, buffer, parsedIpv4, i) ==
    IF i < Len(parsedIpv4)
    THEN LET w == WriteUint8(mem, buffer, parsedIpv4[i + 1])
         IN  writeIPv4(w.mem, w.buf, parsedIpv4, i + 1)
    ELSE [mem |-> mem, buf |-> buffer]

\* n = uint16(parsed[i]) << 8; n = uint16(parsed[i+1]): the second assignment
\* replaces the first.
RECURSIVE writeIPv6(_, _, _, _)
writeIPv6(mem, buffer, parsed, i) ==
    IF i < Len(parsed)
    THEN LET n == parsed[i + 2]
             w == WriteUint16(mem, buffer, n)
         IN  writeIPv6(w.mem, w.buf, parsed, i + 2)
    ELSE [mem |-> mem, buf |-> buffer]

writeServer(mem, buffer, addr) ==
    LET ported(w) == [mem |-> w.mem, buf |-> w.buf]
        addressed(ip) == ported(WriteUint16(ip.mem, ip.buf, addr.port))
        typed(t) ==
            addressed(IF Len(addr.ip) = 4 THEN writeIPv4(t.mem, t.buf, addr.ip, 0)
                      ELSE writeIPv6(t.mem, t.buf, addr.ip, 0))
    IN  typed(WriteUint8(mem, buffer,
                         IF Len(addr.ip) = 4 THEN ADDRESS_IPV4 ELSE ADDRESS_IPV6))

\* The servers addrs[k..last], in order: the first half of the range, then
\* the second half from where the first left the buffer.  (A slice's length
\* is never negative: the test has the first half evaluated before the
\* second is begun.)
RECURSIVE writeServers(_, _, _, _, _)
writeServers(mem, buffer, addrs, k, last) ==
    LET second(w, mid) ==
            IF w.buf.len < 0 THEN w
            ELSE writeServers(w.mem, w.buf, addrs, mid + 1, last)
        halved(mid) == second(writeServers(mem, buffer, addrs, k, mid), mid)
    IN  IF k > last THEN [mem |-> mem, buf |-> buffer]
        ELSE IF k = last THEN writeServer(mem, buffer, addrs[k])
        ELSE halved((k + last) \div 2)

\* Returns [mem, buf, err, panic]: buf is WriteShared's own cursor when it
\* returns.
WriteShared(shared, mem, buffer) ==
    LET serverKey(ck, sk) ==
            IF sk.panic THEN [mem |-> ck.mem, buf |-> ck.buf, err |-> FALSE, panic |-> TRUE]
            ELSE [mem |-> sk.mem, buf |-> sk.buf, err |-> FALSE, panic |-> FALSE]
        clientKey(l, ck) ==
            IF ck.panic THEN [mem |-> l.mem, buf |-> l.buf, err |-> FALSE, panic |-> TRUE]
            ELSE serverKey(ck, WriteBytesN(ck.mem, ck.buf, shared.ServerKey, KEY_BYTES))
        servers(l) == clientKey(l, WriteBytesN(l.mem, l.buf, shared.ClientKey, KEY_BYTES))
        counted(n) ==
            servers(writeServers(n.mem, n.buf, shared.ServerAddrs, 1,
                                 Len(shared.ServerAddrs)))
    IN  counted(WriteUint32(mem, buffer, Len(shared.ServerAddrs)))

\* ipBytes[i] = byte(n) << 8 is 0; ipBytes[i+1] = byte(n).
RECURSIVE readIPv6(_, _, _, _)
readIPv6(mem, buffer, ipBytes, i) ==
    IF i < 16
    THEN LET r == ReadUint16(mem, buffer, 0)
         IN  IF r.err THEN [buf |-> r.buf, err |-> TRUE, ipBytes |-> ipBytes]
             ELSE readIPv6(mem, r.buf,
                           [ipBytes EXCEPT ![i + 1] = 0, ![i + 2] = r.out % 256], i + 2)
    ELSE [buf |-> buffer, err |-> FALSE, ipBytes |-> ipBytes]

\* `port` is declared once, before the loop, and ReadUint16 ORs into it.
\* One pass of the loop, on st = [buf, err, addrs, port]; after an error the
\* loop has returned and st stays.
readServer(mem, st, i) ==
    LET fail == [buf |-> NilSlice, err |-> TRUE, addrs |-> st.addrs, port |-> st.port]
        ported(ip, pt) ==
            IF pt.err THEN fail
            ELSE [buf |-> pt.buf, err |-> FALSE,
                  addrs |-> [st.addrs EXCEPT ![i + 1] = [ip |-> ip.ipBytes,
                                                         port |-> pt.out]],
                  port |-> pt.out]
        addressed(ip) ==
            IF ip.err THEN fail ELSE ported(ip, ReadUint16(mem, ip.buf, st.port))
        v4(r) == [buf |-> r.buf, err |-> r.err, ipBytes |-> Vals(r.out)]
        typed(t) ==
            IF t.err THEN fail
            ELSE IF t.out # ADDRESS_IPV4 /\ t.out # ADDRESS_IPV6 THEN fail
            ELSE addressed(IF t.out = ADDRESS_IPV4
                           THEN v4(ReadBytes(mem, t.buf, Zeros(4), 4))
                           ELSE readIPv6(mem, t.buf, [j \in 1..16 |-> 0], 0))
    IN  IF st.err THEN st ELSE typed(ReadUint8(mem, st.buf, 0))

\* The passes i..servers-1, in order: the first half of the range, then,
\* unless it returned an error, the second.
RECURSIVE readServersFrom(_, _, _, _)
readServersFrom(mem, st, i, servers) ==
    LET second(half, mid) ==
            IF half.err THEN half ELSE readServersFrom(mem, half, mid, servers)
        halved(mid) == second(readServersFrom(mem, st, i, mid), mid)
    IN  IF i >= servers THEN st
        ELSE IF i + 1 = servers THEN readServer(mem, st, i)
        ELSE halved((i + servers) \div 2)

readServers(mem, buffer, addrs, port, i, servers) ==
    LET out(st) == [buf |-> st.buf, err |-> st.err, addrs |-> st.addrs]
    IN  out(readServersFrom(mem, [buf |-> buffer, err |-> FALSE, addrs |-> addrs,
                                  port |-> port], i, servers))

\* Returns [shared, err]: shared as the call left it.
ReadShared(shared, mem, buffer) ==
    LET serverKey(c, sk) ==
            IF sk.err THEN [shared |-> c, err |-> TRUE]
            ELSE [shared |-> [c EXCEPT !.ServerKey = Copy(@, sk.out)], err |-> FALSE]
        clientKey(read, ck) ==
            IF ck.err THEN [shared |-> read, err |-> TRUE]
            ELSE serverKey([read EXCEPT !.ClientKey = Copy(@, ck.out)],
                           ReadBytes(mem, ck.buf, ck.out, KEY_BYTES))
        addresses(read, l) ==
            IF l.err THEN [shared |-> read, err |-> TRUE]
            ELSE clientKey(read, ReadBytes(mem, l.buf, Zeros(KEY_BYTES), KEY_BYTES))
        listed(made, l) == addresses([made EXCEPT !.ServerAddrs = l.addrs], l)
        made(n, m) == listed(m, readServers(mem, n.buf, m.ServerAddrs, 0, 0, n.out))
        counted(n) ==
            IF n.err THEN [shared |-> shared, err |-> TRUE]
            ELSE IF n.out <= 0 THEN [shared |-> shared, err |-> TRUE]
            ELSE IF n.out > MAX_SERVERS_PER_CONNECT THEN [shared |-> shared, err |-> TRUE]
            ELSE made(n, [shared EXCEPT !.ServerAddrs = [i \in 1..n.out |-> ZeroAddr]])
    IN  counted(ReadUint32(mem, buffer, 0))

\* GenerateKey (its source is not among the files): KEY_BYTES random bytes,
\* here the bytes the caller draws.
GenerateShared(shared, clientKey, serverKey) ==
    [shared EXCEPT !.ClientKey = clientKey, !.ServerKey = serverKey]

(***************************************************************************)
(* connect_token_private.go                                                *)
(* A private token is a record of its fields; TokenData is the slice       *)
(* `TokenData` of the backing array `mem`.  Write and ConnectToken.Write   *)
(* call WriteShared(&buffer) while WriteShared takes the slice by value:   *)
(* `advance` says whether the caller's buffer moves past the shared data   *)
(* (a WriteShared that takes the pointer) or stays (the one in the source).*)
(***************************************************************************)
EmptyTokenPrivate(n) ==
    [ServerAddrs |-> <<>>, ClientKey |-> NilKey, ServerKey |-> NilKey,
     ClientId |-> U64Zero, UserData |-> <<>>, mac |-> Zeros(MAC_BYTES),
     mem |-> Zeros(n), TokenData |-> MakeSlice(n)]

NewConnectTokenPrivate(clientId, serverAddrs, userData) ==
    [EmptyTokenPrivate(CONNECT_TOKEN_PRIVATE_BYTES - MAC_BYTES)
        EXCEPT !.ClientId = clientId, !.UserData = userData,
               !.ServerAddrs = serverAddrs]

NewEmptyConnectTokenPrivate == EmptyTokenPrivate(CONNECT_TOKEN_PRIVATE_BYTES)

\* `buffer` is the content of the slice; buffer[:CONNECT_TOKEN_PRIVATE_BYTES]
\* panics on a shorter one.
NewConnectTokenPrivateEncrypted(buffer) ==
    IF Len(buffer) < CONNECT_TOKEN_PRIVATE_BYTES
    THEN [panic |-> TRUE, p |-> NewEmptyConnectTokenPrivate]
    ELSE [panic |-> FALSE,
          p |-> [NewEmptyConnectTokenPrivate
                   EXCEPT !.mem = SubSeq(buffer, 1, CONNECT_TOKEN_PRIVATE_BYTES),
                          !.mac = Copy(@, SubSeq(buffer,
                                     CONNECT_TOKEN_PRIVATE_BYTES - MAC_BYTES + 1,
                                     Len(buffer)))]]

\* buildTokenCryptData with the expire timestamp left out of the additional
\* data.
buildTokenCryptDataNoExpire(protocolId, expireTimestamp, sequence) ==
    LET protocol(w) == WriteUint64(w.mem, w.buf, protocolId).mem
    IN  [additionalData |->
             protocol(WriteBytes(Zeros(VERSION_INFO_BYTES + 8 + 8),
                                 MakeSlice(VERSION_INFO_BYTES + 8 + 8), VERSION_INFO)),
         nonce |-> WriteUint64(Zeros(SizeUint64), MakeSlice(SizeUint64), sequence).mem]

buildTokenCryptData(protocolId, expireTimestamp, sequence) ==
    LET expire(w) == WriteUint64(w.mem, w.buf, expireTimestamp).mem
        protocol(w) == expire(WriteUint64(w.mem, w.buf, protocolId))
    IN  [additionalData |->
             protocol(WriteBytes(Zeros(VERSION_INFO_BYTES + 8 + 8),
                                 MakeSlice(VERSION_INFO_BYTES + 8 + 8), VERSION_INFO)),
         nonce |-> WriteUint64(Zeros(SizeUint64), MakeSlice(SizeUint64), sequence).mem]

\* Returns [p, err, panic].
ConnectTokenPrivateRead(p) ==
    LET start == p.TokenData
        userData(q, r3) ==
            IF r3.err
            THEN [p |-> [q EXCEPT !.TokenData = r3.buf, !.UserData = r3.out],
                  err |-> TRUE, panic |-> FALSE]
            ELSE [p |-> [q EXCEPT !.TokenData = start, !.UserData = r3.out],
                  err |-> FALSE, panic |-> FALSE]
        sharedRead(p1, rs) ==
            IF rs.err THEN [p |-> rs.shared, err |-> TRUE, panic |-> FALSE]
            ELSE userData(rs.shared,
                          ReadBytes(p.mem, p1.TokenData, p1.UserData, USER_DATA_BYTES))
        identified(r1, p1) ==
            IF r1.panic THEN [p |-> p, err |-> FALSE, panic |-> TRUE]
            ELSE IF r1.err THEN [p |-> p1, err |-> TRUE, panic |-> FALSE]
            ELSE sharedRead(p1, ReadShared(p1, p1.mem, p1.TokenData))
        clientId(r1) == identified(r1, [p EXCEPT !.TokenData = r1.buf, !.ClientId = r1.out])
    IN  clientId(ReadUint64(p.mem, p.TokenData, p.ClientId))

ConnectTokenPrivateWrite(p, advance) ==
    LET start == p.TokenData
        userData(p2, w3) ==
            IF w3.panic THEN [p |-> p2, err |-> FALSE, panic |-> TRUE]
            ELSE IF w3.err
            THEN [p |-> [p2 EXCEPT !.mem = w3.mem, !.TokenData = w3.buf],
                  err |-> TRUE, panic |-> FALSE]
            ELSE [p |-> [p2 EXCEPT !.mem = w3.mem, !.TokenData = start],
                  err |-> FALSE, panic |-> FALSE]
        moved(p2) ==
            userData(p2, WriteBytesN(p2.mem, p2.TokenData, p2.UserData, USER_DATA_BYTES))
        sharedWritten(p1, ws) ==
            IF ws.panic THEN [p |-> p1, err |-> FALSE, panic |-> TRUE]
            ELSE moved([p1 EXCEPT !.mem = ws.mem,
                                  !.TokenData = IF advance THEN ws.buf ELSE @])
        identified(w1, p1) ==
            IF w1.err THEN [p |-> p1, err |-> TRUE, panic |-> FALSE]
            ELSE sharedWritten(p1, WriteShared(p1, p1.mem, p1.TokenData))
        clientId(w1) == identified(w1, [p EXCEPT !.mem = w1.mem, !.TokenData = w1.buf])
    IN  clientId(WriteUint64(p.mem, p.TokenData, p.ClientId))

\* EncryptAead(&token.TokenData, ...) leaves the ciphertext and tag in
\* TokenData.
ConnectTokenPrivateEncrypt(token, protocolId, expireTimestamp, sequence, privateKey) ==
    LET stored(sealed, t1) ==
            IF Len(sealed) # CONNECT_TOKEN_PRIVATE_BYTES THEN [p |-> t1, err |-> TRUE]
            ELSE [p |-> [t1 EXCEPT !.mac = Copy(@, SubSeq(sealed,
                                     CONNECT_TOKEN_PRIVATE_BYTES - MAC_BYTES + 1,
                                     Len(sealed)))],
                  err |-> FALSE]
        encrypted(sealed) ==
            stored(sealed, [token EXCEPT !.mem = sealed,
                                         !.TokenData = MakeSlice(Len(sealed))])
        crypt(cd) ==
            encrypted(EncryptAead(Content(token.mem, token.TokenData),
                                  cd.additionalData, cd.nonce, privateKey))
    IN  IF EncryptAeadErr(privateKey) THEN [p |-> token, err |-> TRUE]
        ELSE crypt(buildTokenCryptData(protocolId, expireTimestamp, sequence))

ConnectTokenPrivateDecrypt(p, protocolId, expireTimestamp, sequence, privateKey) ==
    LET decrypted(p1, dec) ==
            IF dec.err
            THEN [p |-> [p1 EXCEPT !.mem = <<>>, !.TokenData = NilSlice], err |-> TRUE]
            ELSE [p |-> [p1 EXCEPT !.mem = dec.out, !.TokenData = MakeSlice(Len(dec.out))],
                  err |-> FALSE]
        crypt(p1, data, cd) ==
            decrypted(p1, DecryptAead(data, cd.additionalData, cd.nonce, privateKey))
        held(data) ==
            crypt([p EXCEPT !.mac = Copy(@, SubSeq(data,
                                     CONNECT_TOKEN_PRIVATE_BYTES - MAC_BYTES + 1,
                                     p.TokenData.len))],
                  data, buildTokenCryptData(protocolId, expireTimestamp, sequence))
    IN  IF p.TokenData.len # CONNECT_TOKEN_PRIVATE_BYTES THEN [p |-> p, err |-> TRUE]
        ELSE held(Content(p.mem, p.TokenData))

(***************************************************************************)
(* connect_token.go                                                        *)
(***************************************************************************)
NewConnectToken ==
    [ServerAddrs |-> <<>>, ClientKey |-> NilKey, ServerKey |-> NilKey,
     VersionInfo |-> Zeros(VERSION_INFO_BYTES), ProtocolId |-> U64Zero,
     CreateTimestamp |-> U64Zero, ExpireTimestamp |-> U64Zero, Sequence |-> U64Zero,
     PrivateData |-> NewEmptyConnectTokenPrivate, TimeoutSeconds |-> 0]

\* uint64 addition: the sum modulo 2^64.
U64Add(a, b) ==
    LET carry[i \in 0..8] == IF i = 0 THEN 0 ELSE (a[i] + b[i] + carry[i - 1]) \div 256
    IN  [i \in 1..8 |-> (a[i] + b[i] + carry[i - 1]) % 256]

\* now is uint64(time.Now().Unix()); now and tokenExpiry are 64-bit values.
\* clientKey and serverKey are what GenerateKey returns.  The versionInfo
\* argument is not used.
ConnectTokenGenerate(token, now, clientKey, serverKey, advance, clientId, serverAddrs, versionInfo, protocolId, tokenExpiry, timeoutSeconds, sequence, userData, privateKey) ==
    LET encrypted(t1, e) ==
            [token |-> [t1 EXCEPT !.PrivateData = e.p], err |-> e.err, panic |-> FALSE]
        written(t1, w) ==
            IF w.panic THEN [token |-> [t1 EXCEPT !.PrivateData = w.p],
                             err |-> FALSE, panic |-> TRUE]
            ELSE IF w.err THEN [token |-> [t1 EXCEPT !.PrivateData = w.p],
                                err |-> TRUE, panic |-> FALSE]
            ELSE encrypted(t1, ConnectTokenPrivateEncrypt(w.p, t1.ProtocolId,
                                                          t1.ExpireTimestamp, sequence,
                                                          privateKey))
        filled(private, t1) == written(t1, ConnectTokenPrivateWrite(private, advance))
        generated(private) ==
            filled(private, [token EXCEPT !.CreateTimestamp = now,
                                          !.ExpireTimestamp = U64Add(now, tokenExpiry),
                                          !.VersionInfo = VERSION_INFO,
                                          !.ProtocolId = protocolId,
                                          !.TimeoutSeconds = timeoutSeconds,
                                          !.Sequence = sequence,
                                          !.PrivateData = private,
                                          !.ClientKey = private.ClientKey,
                                          !.ServerKey = private.ServerKey,
                                          !.ServerAddrs = serverAddrs])
    IN  generated(GenerateShared(NewConnectTokenPrivate(clientId, serverAddrs, userData),
                                 clientKey, serverKey))

\* Returns [out, err, panic]: out the content of the returned slice.
ConnectTokenWrite(token, advance) ==
    LET start == MakeSlice(CONNECT_TOKEN_BYTES)
        timeout(w7) == [out |-> Content(w7.mem, start), err |-> FALSE, panic |-> FALSE]
        sharedWritten(w6, ws) ==
            IF ws.panic THEN [out |-> <<>>, err |-> FALSE, panic |-> TRUE]
            ELSE timeout(WriteUint32(ws.mem, IF advance THEN ws.buf ELSE w6.buf,
                                     token.TimeoutSeconds))
        private(w6) == sharedWritten(w6, WriteShared(token, w6.mem, w6.buf))
        sequence(w5) ==
            private(WriteBytes(w5.mem, w5.buf,
                               Content(token.PrivateData.mem, token.PrivateData.TokenData)))
        expire(w4) == sequence(WriteUint64(w4.mem, w4.buf, token.Sequence))
        create(w3) == expire(WriteUint64(w3.mem, w3.buf, token.ExpireTimestamp))
        protocol(w2) == create(WriteUint64(w2.mem, w2.buf, token.CreateTimestamp))
        version(w1) == protocol(WriteUint64(w1.mem, w1.buf, token.ProtocolId))
    IN  version(WriteBytes(Zeros(CONNECT_TOKEN_BYTES), start, token.VersionInfo))

\* tokenBuffer is the content of the slice.  Returns [token, err, panic];
\* on an error the caller gets nil, here the token as far as it was read.
ReadConnectToken(tokenBuffer) ==
    LET fail(t) == [token |-> t, err |-> TRUE, panic |-> FALSE]
        crash(t) == [token |-> t, err |-> FALSE, panic |-> TRUE]
        timeout(t7, r7) ==
            IF r7.err THEN fail(t7)
            ELSE [token |-> [t7 EXCEPT !.TimeoutSeconds = r7.out],
                  err |-> FALSE, panic |-> FALSE]
        sharedRead(r6, rs) ==
            IF rs.err THEN fail(rs.shared)
            ELSE timeout(rs.shared,
                         ReadUint32(tokenBuffer, r6.buf, rs.shared.TimeoutSeconds))
        held(r6, t6) == sharedRead(r6, ReadShared(t6, tokenBuffer, r6.buf))
        private(t5, r6) ==
            IF r6.err THEN fail(t5)
            ELSE held(r6, [t5 EXCEPT !.PrivateData.mem = r6.out,
                                     !.PrivateData.TokenData = MakeSlice(Len(r6.out))])
        numbered(t4, r5, t5) ==
            IF r5.panic THEN crash(t4)
            ELSE IF r5.err THEN fail(t4)
            ELSE private(t5, ReadBytes(tokenBuffer, r5.buf, <<>>,
                                       t5.PrivateData.TokenData.len))
        sequence(t4, r5) == numbered(t4, r5, [t4 EXCEPT !.Sequence = r5.out])
        expiring(t3, r4, t4) ==
            IF r4.panic THEN crash(t3)
            ELSE IF r4.err THEN fail(t3)
            ELSE IF U64Lt(t4.ExpireTimestamp, t4.CreateTimestamp) THEN fail(t4)
            ELSE sequence(t4, ReadUint64(tokenBuffer, r4.buf, t4.Sequence))
        expire(t3, r4) == expiring(t3, r4, [t3 EXCEPT !.ExpireTimestamp = r4.out])
        created(t2, r3, t3) ==
            IF r3.panic THEN crash(t2)
            ELSE IF r3.err THEN fail(t2)
            ELSE expire(t3, ReadUint64(tokenBuffer, r3.buf, t3.ExpireTimestamp))
        create(t2, r3) == created(t2, r3, [t2 EXCEPT !.CreateTimestamp = r3.out])
        protocolled(t1, r2, t2) ==
            IF r2.panic THEN crash(t1)
            ELSE IF r2.err THEN fail(t1)
            ELSE create(t2, ReadUint64(tokenBuffer, r2.buf, t2.CreateTimestamp))
        protocol(t1, r2) == protocolled(t1, r2, [t1 EXCEPT !.ProtocolId = r2.out])
        versioned(r1, t1) ==
            IF r1.err THEN fail(NewConnectToken)
            ELSE IF t1.VersionInfo # VERSION_INFO THEN fail(t1)
            ELSE protocol(t1, ReadUint64(tokenBuffer, r1.buf, t1.ProtocolId))
        version(r1) == versioned(r1, [NewConnectToken EXCEPT !.VersionInfo = r1.out])
    IN  version(ReadBytes(tokenBuffer, MakeSlice(Len(tokenBuffer)),
                          NewConnectToken.VersionInfo, VERSION_INFO_BYTES))

(***************************************************************************)
(* packet.go: the packets.  A packet is a record of the fields of all the  *)
(* sequenced variants; NewPacket gives the zero value of the peeked type.  *)
(***************************************************************************)
ZeroPacket(t) ==
    [type |-> t, sequence |-> U64Zero,
     ChallengeTokenSequence |-> U64Zero, ChallengeTokenData |-> <<>>,
     ClientIndex |-> 0, MaxClients |-> 0,
     PayloadBytes |-> 0, PayloadData |-> <<>>]

\* PacketType.Peek: packetBuffer[0] & 0xF; on an empty buffer the index panics.
Peek(mem, packetBuffer) == mem[packetBuffer.off + 1].v % 16

NewPayloadPacket(payloadData) ==
    [ZeroPacket(ConnectionPayload) EXCEPT !.PayloadBytes = Len(payloadData),
                                          !.PayloadData = payloadData]

\* A Write returns [mem, ret, err, panic]: the buffer's memory after it, the
\* int and the error returned, and whether it panicked instead.
WriteFail(mem) == [mem |-> mem, ret |-> -1, err |-> TRUE, panic |-> FALSE]

WritePanic(mem) == [mem |-> mem, ret |-> 0, err |-> FALSE, panic |-> TRUE]

DeniedPacketWrite(p, mem, start, protocolId, sequence, writePacketKey) ==
    LET logged(pos, enc) ==
            IF enc.panic THEN enc
            \* log.Printf of start[:encryptLength] comes before the return.
            ELSE IF enc.ret < 0 \/ enc.ret > start.cap THEN WritePanic(enc.mem)
            ELSE [enc EXCEPT !.ret = enc.ret + pos]
        empty(pre, pos) ==
            logged(pos, encryptPacket(pre.mem, pre.buf, pos, pos, pre.prefixByte,
                                      protocolId, sequence, writePacketKey))
        prefixed(pre) ==
            IF pre.err THEN WriteFail(mem) ELSE empty(pre, start.len - pre.buf.len)
    IN  prefixed(writePacketPrefix(mem, start, ConnectionDenied, sequence))

\* EncryptAead(&buffer[encryptedStart:encryptedFinish], ...) encrypts a slice
\* value nobody else holds.  encryptedBuf shares its memory: it holds either
\* the bytes as they were or, when the cipher works in place, their
\* ciphertext without the tag (inPlace).
ChallengePacketWrite(p, mem, start, protocolId, sequence, writePacketKey, inPlace) ==
    LET copied(encryptedStart, w3) ==
            [mem |-> w3.mem, ret |-> w3.buf.len + encryptedStart, err |-> FALSE,
             panic |-> FALSE]
        sealed(encryptedStart, w2, plain, ct) ==
            copied(encryptedStart,
                   WriteBytes(w2.mem, From(start, encryptedStart),
                              IF inPlace THEN SubSeq(ct, 1, Len(plain)) ELSE plain))
        crypt(encryptedStart, w2, plain, cd) ==
            sealed(encryptedStart, w2, plain,
                   EncryptAead(plain, cd.additionalData, cd.nonce, writePacketKey))
        finished(pre, encryptedStart, w1, w2, encryptedFinish) ==
            IF w2.panic THEN WritePanic(w1.mem)
            ELSE IF ~CutOk(w2.buf, encryptedStart, encryptedFinish) THEN WritePanic(w2.mem)
            ELSE IF EncryptAeadErr(writePacketKey) THEN WriteFail(w2.mem)
            ELSE crypt(encryptedStart, w2,
                       Content(w2.mem, Cut(w2.buf, encryptedStart, encryptedFinish)),
                       packetCryptData(pre.prefixByte, protocolId, sequence))
        tokenData(pre, encryptedStart, w1, w2) ==
            finished(pre, encryptedStart, w1, w2, start.len - w2.buf.len)
        tokenSequence(pre, encryptedStart, w1) ==
            tokenData(pre, encryptedStart, w1,
                      WriteBytesN(w1.mem, w1.buf, p.ChallengeTokenData,
                                  CHALLENGE_TOKEN_BYTES))
        prefixed(pre) ==
            IF pre.err THEN WriteFail(mem)
            ELSE tokenSequence(pre, start.len - pre.buf.len,
                               WriteUint64(pre.mem, pre.buf, p.ChallengeTokenSequence))
    IN  prefixed(writePacketPrefix(mem, start, ConnectionChallenge, sequence))

ResponsePacketWrite(p, mem, start, protocolId, sequence, writePacketKey) ==
    LET tokenData(pre, encryptedStart, w1, w2) ==
            IF w2.panic THEN WritePanic(w1.mem)
            ELSE encryptPacket(w2.mem, w2.buf, encryptedStart,
                               w2.buf.len - encryptedStart,
                               pre.prefixByte, protocolId, sequence, writePacketKey)
        tokenSequence(pre, encryptedStart, w1) ==
            tokenData(pre, encryptedStart, w1,
                      WriteBytesN(w1.mem, w1.buf, p.ChallengeTokenData,
                                  CHALLENGE_TOKEN_BYTES))
        prefixed(pre) ==
            IF pre.err THEN WriteFail(mem)
            ELSE tokenSequence(pre, start.len - pre.buf.len,
                               WriteUint64(pre.mem, pre.buf, p.ChallengeTokenSequence))
    IN  prefixed(writePacketPrefix(mem, start, ConnectionResponse, sequence))

KeepAlivePacketWrite(p, mem, start, protocolId, sequence, writePacketKey) ==
    LET maxClients(pre, encryptedStart, w2) ==
            encryptPacket(w2.mem, w2.buf, encryptedStart, w2.buf.len - encryptedStart,
                          pre.prefixByte, protocolId, sequence, writePacketKey)
        clientIndex(pre, encryptedStart, w1) ==
            maxClients(pre, encryptedStart, WriteUint32(w1.mem, w1.buf, p.MaxClients))
        prefixed(pre) ==
            IF pre.err THEN WriteFail(mem)
            ELSE clientIndex(pre, start.len - pre.buf.len,
                             WriteUint32(pre.mem, pre.buf, p.ClientIndex))
    IN  prefixed(writePacketPrefix(mem, start, ConnectionKeepAlive, sequence))

PayloadPacketWrite(p, mem, start, protocolId, sequence, writePacketKey) ==
    LET payload(pre, encryptedStart, w1) ==
            IF w1.panic THEN WritePanic(pre.mem)
            ELSE encryptPacket(w1.mem, w1.buf, encryptedStart,
                               w1.buf.len - encryptedStart,
                               pre.prefixByte, protocolId, sequence, writePacketKey)
        prefixed(pre) ==
            IF pre.err THEN WriteFail(mem)
            ELSE payload(pre, start.len - pre.buf.len,
                         WriteBytesN(pre.mem, pre.buf, p.PayloadData, p.PayloadBytes))
    IN  prefixed(writePacketPrefix(mem, start, ConnectionPayload, sequence))

DisconnectPacketWrite(p, mem, start, protocolId, sequence, writePacketKey) ==
    LET empty(pre, pos) ==
            encryptPacket(pre.mem, pre.buf, pos, pos, pre.prefixByte, protocolId,
                          sequence, writePacketKey)
        prefixed(pre) ==
            IF pre.err THEN WriteFail(mem) ELSE empty(pre, start.len - pre.buf.len)
    IN  prefixed(writePacketPrefix(mem, start, ConnectionDisconnect, sequence))

\* Packet.Write, dispatched on the packet's type.
PacketWrite(p, mem, start, protocolId, sequence, writePacketKey, inPlace) ==
    CASE p.type = ConnectionDenied ->
             DeniedPacketWrite(p, mem, start, protocolId, sequence, writePacketKey)
      [] p.type = ConnectionChallenge ->
             ChallengePacketWrite(p, mem, start, protocolId, sequence, writePacketKey,
                                  inPlace)
      [] p.type = ConnectionResponse ->
             ResponsePacketWrite(p, mem, start, protocolId, sequence, writePacketKey)
      [] p.type = ConnectionKeepAlive ->
             KeepAlivePacketWrite(p, mem, start, protocolId, sequence, writePacketKey)
      [] p.type = ConnectionPayload ->
             PayloadPacketWrite(p, mem, start, protocolId, sequence, writePacketKey)
      [] p.type = ConnectionDisconnect ->
             DisconnectPacketWrite(p, mem, start, protocolId, sequence, writePacketKey)

\* A Read returns [err, panic, p, replay]: p the packet as the call left it.
EmptyPacketRead(p, mem, packetBuffer, packetLen, protocolId, readPacketKey, allowedPackets, replayProtection) ==
    LET decrypted(d) ==
            IF d.err THEN [err |-> TRUE, panic |-> FALSE, p |-> p, replay |-> d.replay]
            ELSE [err |-> Len(d.out) # 0, panic |-> FALSE,
                  p |-> [p EXCEPT !.sequence = d.sequence], replay |-> d.replay]
    IN  decrypted(decryptPacket(mem, packetBuffer, packetLen, protocolId, readPacketKey,
                                allowedPackets, replayProtection))

DeniedPacketRead(p, mem, packetBuffer, packetLen, protocolId, readPacketKey, allowedPackets, replayProtection) ==
    EmptyPacketRead(p, mem, packetBuffer, packetLen, protocolId, readPacketKey,
                    allowedPackets, replayProtection)

DisconnectPacketRead(p, mem, packetBuffer, packetLen, protocolId, readPacketKey, allowedPackets, replayProtection) ==
    EmptyPacketRead(p, mem, packetBuffer, packetLen, protocolId, readPacketKey,
                    allowedPackets, replayProtection)

\* ChallengePacket.Read and ResponsePacket.Read have the same body.
ChallengePacketRead(p, mem, packetBuffer, packetLen, protocolId, readPacketKey, allowedPackets, replayProtection) ==
    LET ret(e, c, q, d) == [err |-> e, panic |-> c, p |-> q, replay |-> d.replay]
        tokenData(d, p2, r2) ==
            IF r2.err THEN ret(TRUE, FALSE, p2, d)
            ELSE ret(FALSE, FALSE, [p2 EXCEPT !.ChallengeTokenData = r2.out], d)
        tokenSequence(d, p1, r1) ==
            IF r1.panic THEN ret(FALSE, TRUE, p1, d)
            ELSE IF r1.err THEN ret(TRUE, FALSE, p1, d)
            ELSE tokenData(d, [p1 EXCEPT !.ChallengeTokenSequence = r1.out],
                           ReadBytes(d.out, r1.buf, p1.ChallengeTokenData,
                                     CHALLENGE_TOKEN_BYTES))
        sequenced(d, p1) ==
            IF Len(d.out) # 8 + CHALLENGE_TOKEN_BYTES THEN ret(TRUE, FALSE, p1, d)
            ELSE tokenSequence(d, p1, ReadUint64(d.out, MakeSlice(Len(d.out)),
                                                 p1.ChallengeTokenSequence))
        decrypted(d) ==
            IF d.err THEN ret(TRUE, FALSE, p, d)
            ELSE sequenced(d, [p EXCEPT !.sequence = d.sequence])
    IN  decrypted(decryptPacket(mem, packetBuffer, packetLen, protocolId, readPacketKey,
                                allowedPackets, replayProtection))

ResponsePacketRead(p, mem, packetBuffer, packetLen, protocolId, readPacketKey, allowedPackets, replayProtection) ==
    ChallengePacketRead(p, mem, packetBuffer, packetLen, protocolId, readPacketKey,
                        allowedPackets, replayProtection)

KeepAlivePacketRead(p, mem, packetBuffer, packetLen, protocolId, readPacketKey, allowedPackets, replayProtection) ==
    LET ret(e, q, d) == [err |-> e, panic |-> FALSE, p |-> q, replay |-> d.replay]
        maxClients(d, p2, r2) ==
            IF r2.err THEN ret(TRUE, p2, d)
            ELSE ret(FALSE, [p2 EXCEPT !.MaxClients = r2.out], d)
        indexed(d, r1, p2) == maxClients(d, p2, ReadUint32(d.out, r1.buf, p2.MaxClients))
        clientIndex(d, p1, r1) ==
            IF r1.err THEN ret(TRUE, p1, d)
            ELSE indexed(d, r1, [p1 EXCEPT !.ClientIndex = r1.out])
        sequenced(d, p1) ==
            IF Len(d.out) # 8 THEN ret(TRUE, p1, d)
            ELSE clientIndex(d, p1, ReadUint32(d.out, MakeSlice(Len(d.out)),
                                               p1.ClientIndex))
        decrypted(d) ==
            IF d.err THEN ret(TRUE, p, d)
            ELSE sequenced(d, [p EXCEPT !.sequence = d.sequence])
    IN  decrypted(decryptPacket(mem, packetBuffer, packetLen, protocolId, readPacketKey,
                                allowedPackets, replayProtection))

\* PayloadPacket.Read with the upper bound exclusive.
PayloadPacketReadBelowMax(p, mem, packetBuffer, packetLen, protocolId, readPacketKey, allowedPackets, replayProtection) ==
    LET ret(e, q, d) == [err |-> e, panic |-> FALSE, p |-> q, replay |-> d.replay]
        sized(d, p1, decryptedSize) ==
            IF decryptedSize < 1 \/ decryptedSize >= MAX_PAYLOAD_BYTES
            THEN ret(TRUE, p1, d)
            ELSE ret(FALSE, [p1 EXCEPT !.PayloadBytes = decryptedSize,
                                       !.PayloadData = d.out], d)
        decrypted(d) ==
            IF d.err THEN ret(TRUE, p, d)
            ELSE sized(d, [p EXCEPT !.sequence = d.sequence], Len(d.out))
    IN  decrypted(decryptPacket(mem, packetBuffer, packetLen, protocolId, readPacketKey,
                                allowedPackets, replayProtection))

PayloadPacketRead(p, mem, packetBuffer, packetLen, protocolId, readPacketKey, allowedPackets, replayProtection) ==
    LET ret(e, q, d) == [err |-> e, panic |-> FALSE, p |-> q, replay |-> d.replay]
        sized(d, p1, decryptedSize) ==
            IF decryptedSize < 1 THEN ret(TRUE, p1, d)
            ELSE IF decryptedSize > MAX_PAYLOAD_BYTES THEN ret(TRUE, p1, d)
            ELSE ret(FALSE, [p1 EXCEPT !.PayloadBytes = decryptedSize,
                                       !.PayloadData = d.out], d)
        decrypted(d) ==
            IF d.err THEN ret(TRUE, p, d)
            ELSE sized(d, [p EXCEPT !.sequence = d.sequence], Len(d.out))
    IN  decrypted(decryptPacket(mem, packetBuffer, packetLen, protocolId, readPacketKey,
                                allowedPackets, replayProtection))

\* Packet.Read of a sequenced packet, dispatched on the packet's type.
SequencedPacketRead(p, mem, packetBuffer, packetLen, protocolId, readPacketKey, allowedPackets, replayProtection) ==
    CASE p.type = ConnectionDenied ->
             DeniedPacketRead(p, mem, packetBuffer, packetLen, protocolId,
                              readPacketKey, allowedPackets, replayProtection)
      [] p.type = ConnectionChallenge ->
             ChallengePacketRead(p, mem, packetBuffer, packetLen, protocolId,
                                 readPacketKey, allowedPackets, replayProtection)
      [] p.type = ConnectionResponse ->
             ResponsePacketRead(p, mem, packetBuffer, packetLen, protocolId,
                                readPacketKey, allowedPackets, replayProtection)
      [] p.type = ConnectionKeepAlive ->
             KeepAlivePacketRead(p, mem, packetBuffer, packetLen, protocolId,
                                 readPacketKey, allowedPackets, replayProtection)
      [] p.type = ConnectionPayload ->
             PayloadPacketRead(p, mem, packetBuffer, packetLen, protocolId,
                               readPacketKey, allowedPackets, replayProtection)
      [] p.type = ConnectionDisconnect ->
             DisconnectPacketRead(p, mem, packetBuffer, packetLen, protocolId,
                                  readPacketKey, allowedPackets, replayProtection)

(***************************************************************************)
(* packet.go: the connection request.  A request packet is a record of its *)
(* own fields; Token is NilToken until Read has built one.                 *)
(***************************************************************************)
NilToken == [nil |-> TRUE]

RequestPacket ==
    [type |-> ConnectionRequest, VersionInfo |-> <<>>, ProtocolId |-> U64Zero,
     ConnectTokenExpireTimestamp |-> U64Zero, ConnectTokenSequence |-> U64Zero,
     Token |-> NilToken, ConnectTokenData |-> <<>>]

\* Returns [mem, ret, err, panic], as the Write of a sequenced packet does.
RequestPacketWrite(p, mem, start) ==
    LET tokenData(w6) ==
            IF start.len - w6.buf.len # 1 + 13 + 8 + 8 + 8 + CONNECT_TOKEN_PRIVATE_BYTES
            THEN [mem |-> w6.mem, ret |-> -1, err |-> TRUE, panic |-> FALSE]
            ELSE [mem |-> w6.mem, ret |-> start.len - w6.buf.len, err |-> FALSE,
                  panic |-> FALSE]
        tokenSequence(w5) == tokenData(WriteBytes(w5.mem, w5.buf, p.ConnectTokenData))
        expire(w4) == tokenSequence(WriteUint64(w4.mem, w4.buf, p.ConnectTokenSequence))
        protocol(w3) == expire(WriteUint64(w3.mem, w3.buf, p.ConnectTokenExpireTimestamp))
        version(w2) == protocol(WriteUint64(w2.mem, w2.buf, p.ProtocolId))
        typed(w1) == version(WriteBytes(w1.mem, w1.buf, p.VersionInfo))
    IN  typed(WriteUint8(mem, start, ConnectionRequest))

\* Returns [err, panic, p, replay].  allowedPackets[0] is read before any
\* length check of allowedPackets: the callers pass all 7 entries.
RequestPacketRead(p, mem, packetBuffer, packetLen, protocolId, currentTimestamp, readPacketKey, privateKey, allowedPackets, replayProtection) ==
    LET fail(q) == [err |-> TRUE, panic |-> FALSE, p |-> q, replay |-> replayProtection]
        crash(q) == [err |-> FALSE, panic |-> TRUE, p |-> q, replay |-> replayProtection]
        tokenRead(p4, rd) ==
            IF rd.panic THEN crash([p4 EXCEPT !.Token = rd.p])
            ELSE IF rd.err THEN fail([p4 EXCEPT !.Token = rd.p])
            ELSE [err |-> FALSE, panic |-> FALSE, p |-> [p4 EXCEPT !.Token = rd.p],
                  replay |-> replayProtection]
        tokenDecrypted(p4, dec) ==
            IF dec.err THEN fail([p4 EXCEPT !.Token = dec.p])
            ELSE tokenRead(p4, ConnectTokenPrivateRead(dec.p))
        tokenMade(p4, new) ==
            IF new.panic THEN crash(p4)
            ELSE tokenDecrypted(p4, ConnectTokenPrivateDecrypt(new.p, p4.ProtocolId,
                                        p4.ConnectTokenExpireTimestamp,
                                        p4.ConnectTokenSequence, privateKey))
        tokenData(p4, r5) ==
            IF r5.err THEN fail(p4)
            ELSE tokenMade(p4, NewConnectTokenPrivateEncrypted(r5.out))
        numbered(p3, r4, p4) ==
            IF r4.panic THEN crash(p3)
            ELSE IF r4.err THEN fail(p4)
            ELSE IF packetBuffer.len - r4.buf.len # 1 + VERSION_INFO_BYTES + 8 + 8 + 8
            THEN fail(p4)
            ELSE tokenData(p4, ReadBytes(mem, r4.buf, Zeros(CONNECT_TOKEN_PRIVATE_BYTES),
                                         CONNECT_TOKEN_PRIVATE_BYTES))
        tokenSequence(p3, r4) ==
            numbered(p3, r4, [p3 EXCEPT !.ConnectTokenSequence = r4.out])
        expiring(p2, r3, p3) ==
            IF r3.panic THEN crash(p2)
            ELSE IF r3.err \/ U64Le(p3.ConnectTokenExpireTimestamp, currentTimestamp)
            THEN fail(p3)
            ELSE tokenSequence(p3, ReadUint64(mem, r3.buf, p3.ConnectTokenSequence))
        expire(p2, r3) ==
            expiring(p2, r3, [p2 EXCEPT !.ConnectTokenExpireTimestamp = r3.out])
        protocolled(p1, r2, p2) ==
            IF r2.panic THEN crash(p1)
            ELSE IF r2.err \/ p2.ProtocolId # protocolId THEN fail(p2)
            ELSE expire(p2, ReadUint64(mem, r2.buf, p2.ConnectTokenExpireTimestamp))
        protocol(p1, r2) == protocolled(p1, r2, [p1 EXCEPT !.ProtocolId = r2.out])
        versioned(r1, p1) ==
            IF r1.err THEN fail(p)
            ELSE IF p1.VersionInfo # VERSION_INFO THEN fail(p1)
            ELSE protocol(p1, ReadUint64(mem, r1.buf, p1.ProtocolId))
        version(r1) == versioned(r1, [p EXCEPT !.VersionInfo = r1.out])
        typed(r0) ==
            IF r0.err \/ r0.out # ConnectionRequest THEN fail(p)
            ELSE IF allowedPackets[0] = 0 THEN fail(p)
            ELSE IF packetLen # 1 + VERSION_INFO_BYTES + 8 + 8 + 8
                                + CONNECT_TOKEN_PRIVATE_BYTES
            THEN fail(p)
            ELSE IF privateKey = NilKey THEN fail(p)
            ELSE version(ReadBytes(mem, r0.buf, p.VersionInfo, VERSION_INFO_BYTES))
    IN  typed(ReadUint8(mem, packetBuffer, 0))

\* NewPacket: the zero packet of the peeked type, nil for 7..15.
NewPacket(mem, packetBuffer) ==
    LET t == Peek(mem, packetBuffer)
    IN  IF t = ConnectionRequest THEN RequestPacket
        ELSE IF t < ConnectionNumPackets THEN ZeroPacket(t)
        ELSE NilToken

\* Packet.Read, dispatched on the packet's type.
PacketRead(p, mem, packetBuffer, packetLen, protocolId, currentTimestamp, readPacketKey, privateKey, allowedPackets, replayProtection) ==
    IF p.type = ConnectionRequest
    THEN RequestPacketRead(p, mem, packetBuffer, packetLen, protocolId, currentTimestamp,
                           readPacketKey, privateKey, allowedPackets, replayProtection)
    ELSE SequencedPacketRead(p, mem, packetBuffer, packetLen, protocolId, readPacketKey,
                             allowedPackets, replayProtection)

(***************************************************************************)
(* The client instance of the server.  A ClientInstance is a record of its *)
(* fields; replayProtection holds the window the pointer refers to, address*)
(* is << >> for nil or one address, queued the number in packetQueue.     *)
(* Times are integers.  packetBuffer is scratch space of MAX_PACKET_BYTES  *)
(* bytes: whether Write fails or panics and what it returns do not depend  *)
(* on the bytes in it, and they are not kept.  ReplayProtection.Reset and  *)
(* NetcodeConn.WriteTo are not among the files: Reset is taken from the    *)
(* specification, WriteTo is an error or none.                             *)
(***************************************************************************)
Reset(rp) == NewReplayProtection

\* c := &ClientInstance{}: every field not assigned has its zero value.
NewClientInstance ==
    [clientId |-> U64Zero, clientIndex |-> 0, confirmed |-> FALSE, connected |-> FALSE,
     encryptionIndex |-> 0, sequence |-> U64Zero, lastSendTime |-> 0, lastRecvTime |-> 0,
     protocolId |-> U64Zero, replayProtection |-> NewReplayProtection, address |-> <<>>,
     queued |-> 0]

\* Clear without the call of replayProtection.Reset.
ClearKeepsWindow(c) ==
    [c EXCEPT !.connected = FALSE, !.confirmed = FALSE, !.clientId = U64Zero,
              !.sequence = U64Zero, !.lastSendTime = 0, !.lastRecvTime = 0,
              !.address = <<>>, !.clientIndex = -1, !.encryptionIndex = -1,
              !.queued = 0]

Clear(c) ==
    [c EXCEPT !.replayProtection = Reset(c.replayProtection),
              !.connected = FALSE, !.confirmed = FALSE, !.clientId = U64Zero,
              !.sequence = U64Zero, !.lastSendTime = 0, !.lastRecvTime = 0,
              !.address = <<>>, !.clientIndex = -1, !.encryptionIndex = -1,
              !.queued = 0]

\* SendPacket returns [c, err, panic, write]: the instance after the call,
\* the error returned, whether the call panicked, and how packet.Write
\* ended: with a nil error, with an error, or in a panic of its own.
\* c.packetBuffer[:bytesWritten] panics when bytesWritten is beyond the
\* buffer's capacity.  connErr, the error of WriteTo, is logged and nothing
\* else.
SendPacket(c, packet, writePacketKey, serverTime, inPlace, connErr) ==
    LET written(w) ==
            IF w.panic THEN [c |-> c, err |-> FALSE, panic |-> TRUE, write |-> "panic"]
            ELSE IF w.err THEN [c |-> c, err |-> TRUE, panic |-> FALSE, write |-> "error"]
            ELSE IF w.ret < 0 \/ w.ret > MAX_PACKET_BYTES
            THEN [c |-> c, err |-> FALSE, panic |-> TRUE, write |-> "nil"]
            ELSE [c |-> [c EXCEPT !.sequence = U64Inc(c.sequence, 1),
                                  !.lastSendTime = serverTime],
                  err |-> FALSE, panic |-> FALSE, write |-> "nil"]
    IN  written(PacketWrite(packet, Zeros(MAX_PACKET_BYTES), MakeSlice(MAX_PACKET_BYTES),
                            c.protocolId, c.sequence, writePacketKey, inPlace))

(***************************************************************************)
(* State.                                                                  *)
(*   sq      the last prefix-and-sequence encoding and its reading back    *)
(*   tx      the last Packet.Write and the Read of the bytes it produced   *)
(*   rx      the last datagram decoded against the client's replay window  *)
(*   replay  the client's replay window                                    *)
(*   seen, accepted  history: the sequences presented to the window, and   *)
(*           the sequences of the accepted packets, in order               *)
(*   tok     the last connect-token operation                              *)
(*   instance  a client instance of the server                             *)
(***************************************************************************)
Idle == [phase |-> "idle"]

Init ==
    /\ sq = Idle
    /\ tx = Idle
    /\ rx = Idle
    /\ replay = NewReplayProtection
    /\ seen = {}
    /\ accepted = <<>>
    /\ tok = Idle
    /\ instance = NewClientInstance

(***************************************************************************)
(* Inputs                                                                  *)
(***************************************************************************)
KeyA == [i \in 1..KEY_BYTES |-> Byte(17)]

KeyB == [i \in 1..KEY_BYTES |-> Byte(IF i = 1 THEN 16 ELSE 17)]

ProtocolA == <<136, 119, 102, 85, 68, 51, 34, 17>>

ProtocolB == <<137, 119, 102, 85, 68, 51, 34, 17>>

SequencedTypes == ConnectionDenied..ConnectionDisconnect

\* The values a byte of a sequence takes in SpecSeq: every combination of
\* zero, low and high bytes in the 8 positions.
SeqByteValues == {0, 1, 255}

SeqDomain == [1..8 -> SeqByteValues]

(***************************************************************************)
(* SpecSeq: writePacketPrefix on a fresh buffer, then readSequence on the  *)
(* bytes written, and readSequence of the same bytes under each of the 16  *)
(* values of the prefix byte's high nibble.                                *)
(***************************************************************************)
PrefixBufferLen == 1 + 8 + MAC_BYTES

InitSeq ==
    /\ sq \in [phase : {"in"}, sequence : SeqDomain, type : SequencedTypes]
    /\ tx = Idle
    /\ rx = Idle
    /\ replay = NewReplayProtection
    /\ seen = {}
    /\ accepted = <<>>
    /\ tok = Idle
    /\ instance = NewClientInstance

PrefixStep ==
    /\ sq.phase = "in"
    /\ LET start == MakeSlice(PrefixBufferLen)
           readBack(pre, written, rd) ==
               sq' = [phase |-> "out", sequence |-> sq.sequence, type |-> sq.type,
                      err |-> pre.err, prefixByte |-> pre.prefixByte,
                      bytes |-> Vals(SubSeq(pre.mem, 1, written)),
                      readErr |-> rd.err, read |-> rd.sequence,
                      rejected |-> {hn \in 0..15 :
                          readSequence(pre.mem, From(start, 1), PrefixBufferLen,
                                       16 * hn + sq.type).err}]
           sized(pre, written) ==
               readBack(pre, written,
                        readSequence(pre.mem, From(start, 1), written + MAC_BYTES,
                                     pre.mem[1].v))
           prefixed(pre) == sized(pre, start.len - pre.buf.len)
       IN  prefixed(writePacketPrefix(Zeros(PrefixBufferLen), start, sq.type,
                                      sq.sequence))
    /\ UNCHANGED <<tx, rx, replay, seen, accepted, tok, instance>>

NextSeq == PrefixStep

SpecSeq == InitSeq /\ [][NextSeq]_vars

\* The least number of bytes that hold a 64-bit value.
MinBytes(sequence) ==
    CHOOSE n \in 1..8 : (\A j \in (n + 1)..8 : sequence[j] = 0)
                        /\ (n = 1 \/ sequence[n] # 0)

\* C6: the prefix byte's high nibble is the least number n of bytes that hold
\* the sequence (1 <= n <= 8, n = 1 for 0, n = 8 from 2^56 on), its low nibble the
\* packet type; the n low-order bytes of the sequence follow, least significant
\* first; readSequence returns the sequence from them; and readSequence rejects
\* exactly the high nibbles 0 and 9..15.
SequencePrefixRoundTrip ==
    sq.phase = "out" =>
        /\ ~sq.err
        /\ sq.prefixByte \div 16 = MinBytes(sq.sequence)
        /\ sq.prefixByte \div 16 \in 1..8
        /\ (sq.sequence = U64Zero => sq.prefixByte \div 16 = 1)
        /\ (sq.sequence[8] # 0 => sq.prefixByte \div 16 = 8)
        /\ sq.prefixByte % 16 = sq.type
        /\ sq.bytes = <<sq.prefixByte>>
                      \o SubSeq(sq.sequence, 1, sq.prefixByte \div 16)
        /\ ~sq.readErr
        /\ sq.read = sq.sequence
        /\ sq.rejected = {0} \cup 9..15

\* A sequence of at least 2^56 was written with 8 bytes and read back.
SequencePrefixWitness ==
    /\ sq.phase = "out"
    /\ sq.sequence = <<255, 255, 255, 255, 255, 255, 255, 1>>
    /\ sq.prefixByte \div 16 = 8
    /\ Len(sq.bytes) = 9
    /\ sq.read = sq.sequence

(***************************************************************************)
(* SpecWrite: Packet.Write of one packet into a fresh buffer, then Read of *)
(* the bytes it reports written (NewPacket on the first byte, then Read    *)
(* with the same protocol id and key, every type allowed, a new replay     *)
(* window).                                                                *)
(***************************************************************************)
AllAllowed == [t \in 0..(ConnectionNumPackets - 1) |-> 1]

FreshWindow == [present |-> TRUE, rp |-> NewReplayProtection]

\* n bytes that differ from place to place.
Pattern(n) == [i \in 1..n |-> Byte((7 * i) % 251)]

WritePayloadLens == {1, 2, 1195, 1200, 1201}

WritePackets ==
    {ZeroPacket(ConnectionDenied), ZeroPacket(ConnectionDisconnect),
     [ZeroPacket(ConnectionKeepAlive) EXCEPT !.ClientIndex = 3, !.MaxClients = 60]}
    \cup {[ZeroPacket(t) EXCEPT !.ChallengeTokenSequence = U64(1000),
                                !.ChallengeTokenData = Pattern(CHALLENGE_TOKEN_BYTES)] :
          t \in {ConnectionChallenge, ConnectionResponse}}
    \cup {NewPayloadPacket(Pattern(n)) : n \in WritePayloadLens}

WriteSequences ==
    {U64Zero, U64(1), U64(255), U64(256),
     <<255, 255, 255, 255, 255, 255, 255, 0>>,
     <<255, 255, 255, 255, 255, 255, 255, 1>>}

\* The buffers handed to Write: of a KeepAlive frame's size, the client
\* instance's packetBuffer, and a larger one.
WriteBufferLens == {1 + 1 + 8 + MAC_BYTES, MAX_PACKET_BYTES, CONNECT_TOKEN_BYTES}

InitWrite ==
    /\ tx \in [phase : {"in"}, p : WritePackets, sequence : WriteSequences,
               bufferLen : WriteBufferLens, key : {KeyA, KeyB},
               protocolId : {ProtocolA, ProtocolB}, inPlace : BOOLEAN]
    /\ sq = Idle
    /\ rx = Idle
    /\ replay = NewReplayProtection
    /\ seen = {}
    /\ accepted = <<>>
    /\ tok = Idle
    /\ instance = NewClientInstance

\* The Read of the bytes buffer[:ret] a Write reported.
ReadBack(w, bufferLen, protocolId, key) ==
    LET read(r) == [ran |-> TRUE, err |-> r.err, panic |-> r.panic, p |-> r.p]
        typed(frame, t) ==
            IF t \notin SequencedTypes THEN [ran |-> FALSE]
            ELSE read(SequencedPacketRead(ZeroPacket(t), frame, MakeSlice(w.ret),
                                          w.ret, protocolId, key, AllAllowed,
                                          FreshWindow))
        framed(frame) == typed(frame, Peek(frame, MakeSlice(w.ret)))
    IN  IF w.panic \/ w.err \/ w.ret < 1 \/ w.ret > bufferLen THEN [ran |-> FALSE]
        ELSE framed(SubSeq(w.mem, 1, w.ret))

WritePacket ==
    /\ tx.phase = "in"
    /\ LET written(w) ==
               tx' = [phase |-> "out", p |-> tx.p, sequence |-> tx.sequence,
                      bufferLen |-> tx.bufferLen, key |-> tx.key,
                      protocolId |-> tx.protocolId,
                      ret |-> w.ret, err |-> w.err, panic |-> w.panic,
                      rt |-> ReadBack(w, tx.bufferLen, tx.protocolId, tx.key)]
       IN  written(PacketWrite(tx.p, Zeros(tx.bufferLen), MakeSlice(tx.bufferLen),
                               tx.protocolId, tx.sequence, tx.key, tx.inPlace))
    /\ UNCHANGED <<sq, rx, replay, seen, accepted, tok, instance>>

NextWrite == WritePacket

SpecWrite == InitWrite /\ [][NextWrite]_vars

\* The size of a packet's body before encryption, and of its frame.
PlainLen(p) ==
    CASE p.type \in {ConnectionDenied, ConnectionDisconnect} -> 0
      [] p.type \in {ConnectionChallenge, ConnectionResponse} -> 8 + CHALLENGE_TOKEN_BYTES
      [] p.type = ConnectionKeepAlive -> 8
      [] p.type = ConnectionPayload -> p.PayloadBytes

FrameLen(p, sequence) == 1 + MinBytes(sequence) + PlainLen(p) + MAC_BYTES

\* A packet the format allows, written into a buffer that holds its frame.
TxValid ==
    /\ tx.phase = "out"
    /\ tx.p.type = ConnectionPayload => tx.p.PayloadBytes \in 1..MAX_PAYLOAD_BYTES
    /\ FrameLen(tx.p, tx.sequence) <= MAX_PACKET_BYTES
    /\ FrameLen(tx.p, tx.sequence) <= tx.bufferLen

\* C1: the bytes Write produces are read back, with the same protocol id and
\* key, as a packet of the same type with the same body fields and the
\* sequence that was written.
WriteReadRoundTrip ==
    TxValid =>
        /\ ~tx.panic /\ ~tx.err
        /\ tx.rt.ran /\ ~tx.rt.err /\ ~tx.rt.panic
        /\ tx.rt.p = [tx.p EXCEPT !.sequence = tx.sequence]

\* C2: Write returns 1 + n + plaintext_len + 16.
WriteReturnsFrameLength ==
    TxValid => ~tx.panic /\ ~tx.err /\ tx.ret = FrameLen(tx.p, tx.sequence)

\* C8: no Write reports more than 1220 bytes; a payload whose frame would be
\* longer than 1220 bytes, or whose body is longer than 1200, is refused with
\* an error; a payload of 1..1200 bytes whose frame fits is written.
WriteRefusesOversize ==
    tx.phase = "out" =>
        /\ (~tx.panic /\ ~tx.err => tx.ret <= MAX_PACKET_BYTES)
        /\ (tx.p.type = ConnectionPayload
            /\ (FrameLen(tx.p, tx.sequence) > MAX_PACKET_BYTES
                \/ tx.p.PayloadBytes > MAX_PAYLOAD_BYTES)
            => tx.err /\ ~tx.panic)
        /\ (tx.p.type = ConnectionPayload /\ TxValid
            => ~tx.err /\ ~tx.panic /\ tx.ret = FrameLen(tx.p, tx.sequence))

(***************************************************************************)
(* Datagrams and tokens on the wire, as a peer that follows the format     *)
(* sends them (specification, sections 4.4, 4.5 and 4.7).  A sequenced     *)
(* packet is the prefix byte, the n low-order bytes of the sequence, and   *)
(* the body encrypted under the standard associated data and nonce; a      *)
(* request is a zero byte and its envelope around the sealed private token.*)
(***************************************************************************)
WireAddr(addr) ==
    IF Len(addr.ip) = 4
    THEN <<ADDRESS_IPV4>> \o addr.ip \o <<addr.port % 256, addr.port \div 256>>
    ELSE <<ADDRESS_IPV6>>
         \o [i \in 1..16 |-> IF i % 2 = 1 THEN addr.ip[i + 1] ELSE addr.ip[i - 1]]
         \o <<addr.port % 256, addr.port \div 256>>

RECURSIVE WireAddrs(_)
WireAddrs(addrs) ==
    IF addrs = <<>> THEN <<>> ELSE WireAddr(Head(addrs)) \o WireAddrs(Tail(addrs))

WirePrivateToken(clientId, addrs, clientKey, serverKey, userData) ==
    LET padded(body) == body \o Zeros(CONNECT_TOKEN_PRIVATE_BYTES - MAC_BYTES - Len(body))
    IN  padded(Bytes(clientId) \o Bytes(<<Len(addrs), 0, 0, 0>>)
               \o Bytes(WireAddrs(addrs)) \o clientKey \o serverKey \o userData)

WireSealedToken(private, protocolId, expireTimestamp, sequence, privateKey) ==
    EncryptAead(private,
                VERSION_INFO \o Bytes(protocolId) \o Bytes(expireTimestamp),
                Bytes(sequence), privateKey)

WireRequestBody(protocolId, expireTimestamp, sequence, sealed) ==
    VERSION_INFO \o Bytes(protocolId) \o Bytes(expireTimestamp) \o Bytes(sequence)
    \o sealed

WireFrame(dg) ==
    LET sequenced(n, prefixByte) ==
            <<Byte(prefixByte)>>
            \o Bytes(SubSeq(dg.sequence, 1, n))
            \o EncryptAead(dg.body,
                           VERSION_INFO \o Bytes(dg.protocolId) \o <<Byte(prefixByte)>>,
                           Bytes(dg.sequence), dg.key)
        sized(n) == sequenced(n, 16 * n + dg.type)
    IN  IF dg.type = ConnectionRequest THEN <<Byte(0)>> \o dg.body
        ELSE sized(MinBytes(dg.sequence))

\* The server: its private key and its clock; a client's endpoint and
\* the token of its request.
PrivateKey == [i \in 1..KEY_BYTES |-> Byte(99)]

CurrentTimestamp == U64(1000)

ExpireTimestamp == U64(1030)

TokenSequence == U64(3)

AddrV4 == [ip |-> <<10, 20, 30, 40>>, port |-> 40000]

AddrV4b == [ip |-> <<192, 168, 1, 2>>, port |-> 513]

AddrV6 == [ip |-> <<32, 1, 13, 184, 0, 0, 0, 0, 0, 0, 0, 0, 0, 0, 1, 2>>, port |-> 40001]

\* The body of a well-formed packet of each type; a request's token is
\* sealed under `key` for `protocolId`.
WireBody(type, key, protocolId) ==
    CASE type = ConnectionRequest ->
             WireRequestBody(protocolId, ExpireTimestamp, TokenSequence,
                 WireSealedToken(WirePrivateToken(U64(7), <<AddrV4>>, KeyA, KeyB,
                                                  Pattern(USER_DATA_BYTES)),
                                 protocolId, ExpireTimestamp, TokenSequence, key))
      [] type \in {ConnectionDenied, ConnectionDisconnect} -> <<>>
      [] type \in {ConnectionChallenge, ConnectionResponse} ->
             Bytes(U64(1000)) \o Pattern(CHALLENGE_TOKEN_BYTES)
      [] type = ConnectionKeepAlive -> Bytes(<<3, 0, 0, 0, 60, 0, 0, 0>>)
      [] type = ConnectionPayload -> Pattern(2)

Datagram(type, sequence, body, key, protocolId) ==
    [type |-> type, sequence |-> sequence, body |-> body, key |-> key,
     protocolId |-> protocolId]

(***************************************************************************)
(* The receive path for one client: NewPacket on the datagram, then Read   *)
(* with the server's protocol id, clock and keys and the client's replay   *)
(* window.  Read on the nil packet of an unknown type panics.              *)
(***************************************************************************)
Decode(frame, protocolId, currentTimestamp, readPacketKey, privateKey, allowedPackets, rp) ==
    LET packetBuffer == MakeSlice(Len(frame))
        replayProtection == [present |-> TRUE, rp |-> rp]
        made(p) ==
            IF "nil" \in DOMAIN p
            THEN [err |-> FALSE, panic |-> TRUE, p |-> p, replay |-> replayProtection]
            ELSE PacketRead(p, frame, packetBuffer, Len(frame), protocolId,
                            currentTimestamp, readPacketKey, privateKey, allowedPackets,
                            replayProtection)
    IN  made(NewPacket(frame, packetBuffer))

Protected(type) == type >= ConnectionKeepAlive

DecodePacket(dg, readPacketKey, allowedPackets) ==
    LET read(r) ==
            /\ rx' = [phase |-> "out",
                      n |-> IF rx.phase = "out" THEN rx.n + 1 ELSE 1,
                      dg |-> dg,
                      authentic |->
                          /\ dg.protocolId = ProtocolA
                          /\ dg.key = IF dg.type = ConnectionRequest THEN PrivateKey
                                      ELSE readPacketKey,
                      allowed |-> allowedPackets[dg.type],
                      fresh |-> dg.sequence \notin seen,
                      before |-> replay,
                      err |-> r.err, panic |-> r.panic, p |-> r.p]
            /\ replay' = r.replay.rp
            /\ seen' = IF Protected(dg.type) THEN seen \cup {dg.sequence} ELSE seen
            /\ accepted' = IF ~r.err /\ ~r.panic /\ Protected(dg.type)
                           THEN Append(accepted, dg.sequence) ELSE accepted
            /\ UNCHANGED <<sq, tx, tok, instance>>
    IN  read(Decode(WireFrame(dg), ProtocolA, CurrentTimestamp, readPacketKey,
                    PrivateKey, allowedPackets, replay))

(***************************************************************************)
(* SpecReplay: a client's authentic KeepAlive, Payload and Disconnect      *)
(* datagrams, in any order and with repetitions, against its window.       *)
(***************************************************************************)
MaxDecodes == 4

\* Sequences around the window's edges: 0 + 256 = 256, 1 + 256 > 256,
\* 5 and 261 and 517 share a slot.
ReplaySequences == {U64Zero, U64(1), U64(5), U64(255), U64(256), U64(261), U64(517)}

ReplayDatagrams ==
    {Datagram(t, sequence, WireBody(t, KeyA, ProtocolA), KeyA, ProtocolA) :
        t \in ConnectionKeepAlive..ConnectionDisconnect, sequence \in ReplaySequences}

ReceivePacket ==
    /\ IF rx.phase = "out" THEN rx.n < MaxDecodes ELSE TRUE
    /\ \E dg \in ReplayDatagrams : DecodePacket(dg, KeyA, AllAllowed)

NextReplay == ReceivePacket

SpecReplay == Init /\ [][NextReplay]_vars

\* What the receive path would answer now to an authentic datagram.
WouldReject(type, sequence) ==
    LET r == Decode(WireFrame(Datagram(type, sequence, WireBody(type, KeyA, ProtocolA),
                                       KeyA, ProtocolA)),
                    ProtocolA, CurrentTimestamp, KeyA, PrivateKey, AllAllowed, replay)
    IN  r.err \/ r.panic

ProtectedTypes == ConnectionKeepAlive..ConnectionDisconnect

RxAccepted == rx.phase = "out" /\ ~rx.err /\ ~rx.panic

\* C3: with a replay window, no sequence number is accepted twice among the
\* packets of type >= 4: every accepted sequence is from then on rejected as
\* a replay, whatever the type of the packet that repeats it; and right after
\* the packet with sequence s1 is accepted, a packet with a sequence s2 > s1
\* that was never presented is accepted.
ReplayAtMostOnce ==
    /\ \A i, j \in 1..Len(accepted) : i # j => accepted[i] # accepted[j]
    /\ \A i \in 1..Len(accepted), t \in ProtectedTypes : WouldReject(t, accepted[i])
    /\ (RxAccepted /\ Protected(rx.dg.type)) =>
          \A s2 \in ReplaySequences, t \in ProtectedTypes :
              (U64Lt(rx.dg.sequence, s2) /\ s2 \notin seen) => ~WouldReject(t, s2)

\* Sequence 5 was accepted, then a second packet with 5 was refused, and 256
\* is still to come.
ReplayWitness ==
    /\ rx.phase = "out" /\ rx.err /\ ~rx.fresh
    /\ rx.dg.sequence = U64(5)
    /\ accepted = <<U64(5)>>
    /\ U64(256) \notin seen

\* The value of a sequence below 2^24.
Value(sequence) == sequence[1] + 256 * sequence[2] + 65536 * sequence[3]

\* C4: a packet of type >= 4 whose sequence s has
\* s + 256 <= most_recent is rejected and the window stays as it was; while
\* most_recent < 256 nothing is too old: every authentic packet with a
\* sequence not presented before is accepted.
TooOldRejected ==
    (rx.phase = "out" /\ Protected(rx.dg.type)) =>
        /\ Value(rx.dg.sequence) + REPLAY_PROTECTION_BUFFER_SIZE
               <= Value(rx.before.mostRecent)
           => (rx.err /\ replay = rx.before)
        /\ (Value(rx.before.mostRecent) < REPLAY_PROTECTION_BUFFER_SIZE /\ rx.fresh)
           => (~rx.err /\ ~rx.panic)

\* Sequence 0 arrives for the first time when most_recent is 256, and is
\* rejected.
TooOldWitness ==
    /\ rx.phase = "out" /\ rx.err /\ rx.fresh
    /\ rx.dg.sequence = U64Zero
    /\ rx.before.mostRecent = U64(256)
    /\ replay = rx.before

(***************************************************************************)
(* SpecDecode: one datagram, authentic or not, well-formed or not, decoded *)
(* against a fresh window under a mask that allows every type or every     *)
(* type but one.                                                           *)
(***************************************************************************)
AllBut(t) == [u \in 0..(ConnectionNumPackets - 1) |-> IF u = t THEN 0 ELSE 1]

DecodeMasks == {AllAllowed} \cup {AllBut(t) : t \in 0..(ConnectionNumPackets - 1)}

\* A one-byte and an eight-byte sequence.
DecodeSequences == {U64(5), <<1, 0, 0, 0, 0, 0, 0, 1>>}

DecodePayloadLens == {0, 1, MAX_PAYLOAD_BYTES, MAX_PAYLOAD_BYTES + 1}

DecodeDatagrams ==
    {Datagram(t, sequence, WireBody(t, key, protocolId), key, protocolId) :
        t \in SequencedTypes, sequence \in DecodeSequences,
        key \in {KeyA, KeyB}, protocolId \in {ProtocolA, ProtocolB}}
    \cup {Datagram(ConnectionRequest, U64Zero, WireBody(ConnectionRequest, key, protocolId),
                   key, protocolId) :
            key \in {PrivateKey, KeyB}, protocolId \in {ProtocolA, ProtocolB}}
    \cup {Datagram(ConnectionPayload, sequence, Pattern(n), KeyA, ProtocolA) :
            sequence \in DecodeSequences, n \in DecodePayloadLens}

InitDecode ==
    /\ Init!1 /\ Init!2 /\ Init!4 /\ Init!5 /\ Init!6 /\ Init!7 /\ Init!8
    /\ rx \in [phase : {"in"}, dg : DecodeDatagrams, allowedPackets : DecodeMasks]

DecodeDatagram ==
    /\ rx.phase = "in"
    /\ DecodePacket(rx.dg, KeyA, rx.allowedPackets)

NextDecode == DecodeDatagram

SpecDecode == InitDecode /\ [][NextDecode]_vars

WellFormed(dg) ==
    \/ dg.body = WireBody(dg.type, dg.key, dg.protocolId)
    \/ dg.type = ConnectionPayload /\ Len(dg.body) \in 1..MAX_PAYLOAD_BYTES

\* C5: a well-formed datagram of a type the mask does not allow, sealed with
\* the right key for the right protocol id and carrying a sequence the window
\* has not seen, is answered with an error, and the packet object is left as
\* NewPacket made it: no field of the datagram reaches the caller.
DisallowedTypeRejected ==
    (rx.phase = "out" /\ rx.allowed = 0 /\ rx.authentic /\ rx.fresh /\ WellFormed(rx.dg))
        => /\ rx.err /\ ~rx.panic
           /\ rx.p = IF rx.dg.type = ConnectionRequest THEN RequestPacket
                     ELSE ZeroPacket(rx.dg.type)

\* An authentic KeepAlive under a mask without KeepAlive.
DisallowedTypeWitness ==
    /\ rx.phase = "out" /\ rx.allowed = 0 /\ rx.authentic /\ rx.fresh
    /\ WellFormed(rx.dg)
    /\ rx.dg.type = ConnectionKeepAlive
    /\ rx.err

\* C7: an authentic, allowed Payload datagram with a fresh sequence is accepted
\* exactly when its decrypted body has 1..1200 bytes, and the accepted packet
\* carries that body.
PayloadSizeBounds ==
    (rx.phase = "out" /\ rx.dg.type = ConnectionPayload /\ rx.allowed = 1
     /\ rx.authentic /\ rx.fresh)
        => /\ (~rx.err /\ ~rx.panic) <=> Len(rx.dg.body) \in 1..MAX_PAYLOAD_BYTES
           /\ (~rx.err /\ ~rx.panic) =>
                 /\ rx.p.PayloadBytes = Len(rx.dg.body)
                 /\ rx.p.PayloadData = rx.dg.body
                 /\ rx.p.sequence = rx.dg.sequence

\* A payload of exactly 1200 bytes, accepted.
PayloadSizeWitness ==
    /\ rx.phase = "out" /\ rx.dg.type = ConnectionPayload /\ rx.allowed = 1
    /\ rx.authentic /\ rx.fresh
    /\ Len(rx.dg.body) = MAX_PAYLOAD_BYTES
    /\ ~rx.err /\ ~rx.panic

(***************************************************************************)
(* SpecToken: a token is generated for a client and then either its        *)
(* private part is sealed, opened and read back on the server, or the      *)
(* whole token is written and read back by the client.                     *)
(***************************************************************************)
TokenNow == 1000

TokenExpiry == 30

TokenAddrs == {<<AddrV4>>, <<AddrV4, AddrV4b>>, <<AddrV6>>, <<AddrV4b, AddrV6>>}

TokenInputs ==
    [advance : BOOLEAN,
     clientId : {U64(7), <<1, 2, 3, 4, 5, 6, 7, 8>>},
     serverAddrs : TokenAddrs,
     timeoutSeconds : {1, 10},
     userData : {Pattern(USER_DATA_BYTES), Zeros(USER_DATA_BYTES)}]

InitToken ==
    /\ Init!1 /\ Init!2 /\ Init!3 /\ Init!4 /\ Init!5 /\ Init!6 /\ Init!8
    /\ tok \in [phase : {"in"}, in : TokenInputs]

Generated(in) ==
    ConnectTokenGenerate(NewConnectToken, U64(TokenNow), KeyA, KeyB, in.advance,
                         in.clientId, in.serverAddrs, VERSION_INFO, ProtocolA,
                         U64(TokenExpiry),
                         in.timeoutSeconds, TokenSequence, in.userData, PrivateKey)

\* Generate (Write, then Encrypt, of the private token) on the token service;
\* NewConnectTokenPrivateEncrypted, Decrypt and Read on the server.
PrivateTokenRoundTrip ==
    /\ tok.phase = "in"
    /\ LET decrypted(g, new, dec) ==
               IF g.err \/ g.panic \/ new.panic
               THEN [err |-> TRUE, panic |-> new.panic, p |-> new.p]
               ELSE IF dec.err THEN [err |-> TRUE, panic |-> FALSE, p |-> dec.p]
               ELSE ConnectTokenPrivateRead(dec.p)
           made(g, sealed, new) ==
               tok' = [phase |-> "private", in |-> tok.in,
                       err |-> g.err, panic |-> g.panic,
                       sealedLen |-> Len(sealed),
                       back |-> decrypted(g, new,
                                    ConnectTokenPrivateDecrypt(new.p, ProtocolA,
                                        g.token.ExpireTimestamp, TokenSequence,
                                        PrivateKey))]
           sent(g, sealed) == made(g, sealed, NewConnectTokenPrivateEncrypted(sealed))
           generated(g) ==
               sent(g, Content(g.token.PrivateData.mem, g.token.PrivateData.TokenData))
       IN  generated(Generated(tok.in))
    /\ UNCHANGED <<sq, tx, rx, replay, seen, accepted, instance>>

\* Generate and Write on the token service; ReadConnectToken on the client.
ConnectTokenRoundTrip ==
    /\ tok.phase = "in"
    /\ LET written(g, w) ==
               tok' = [phase |-> "public", in |-> tok.in,
                       err |-> g.err \/ w.err, panic |-> g.panic \/ w.panic,
                       token |-> g.token,
                       out |-> w.out,
                       back |-> IF g.err \/ g.panic \/ w.err \/ w.panic
                                THEN [err |-> TRUE, panic |-> FALSE,
                                      token |-> NewConnectToken]
                                ELSE ReadConnectToken(w.out)]
           generated(g) == written(g, ConnectTokenWrite(g.token, tok.in.advance))
       IN  generated(Generated(tok.in))
    /\ UNCHANGED <<sq, tx, rx, replay, seen, accepted, instance>>

NextToken == PrivateTokenRoundTrip \/ ConnectTokenRoundTrip

SpecToken == InitToken /\ [][NextToken]_vars

OneIPv4(addrs) == Len(addrs) = 1 /\ Len(addrs[1].ip) = 4

\* C9: ConnectToken.Write returns 2048 bytes, and ReadConnectToken on them
\* returns a token with the same version info, protocol id, timestamps,
\* sequence, private-data bytes, endpoints, keys and timeout (stated here for
\* a token with one IPv4 endpoint).
ConnectTokenRecovered ==
    (tok.phase = "public" /\ OneIPv4(tok.in.serverAddrs)) =>
        /\ ~tok.err /\ ~tok.panic
        /\ Len(tok.out) = CONNECT_TOKEN_BYTES
        /\ ~tok.back.err /\ ~tok.back.panic
        /\ tok.back.token.VersionInfo = tok.token.VersionInfo
        /\ tok.back.token.ProtocolId = tok.token.ProtocolId
        /\ tok.back.token.CreateTimestamp = tok.token.CreateTimestamp
        /\ tok.back.token.ExpireTimestamp = tok.token.ExpireTimestamp
        /\ tok.back.token.Sequence = tok.token.Sequence
        /\ Content(tok.back.token.PrivateData.mem, tok.back.token.PrivateData.TokenData)
               = Content(tok.token.PrivateData.mem, tok.token.PrivateData.TokenData)
        /\ tok.back.token.ServerAddrs = tok.token.ServerAddrs
        /\ tok.back.token.ClientKey = tok.token.ClientKey
        /\ tok.back.token.ServerKey = tok.token.ServerKey
        /\ tok.back.token.TimeoutSeconds = tok.token.TimeoutSeconds

\* C10: Write and Encrypt of a private token leave 1024 bytes, and Decrypt
\* with the same protocol id, expiry, sequence and key followed by Read gives
\* the client id, endpoints, keys and user data back (stated here for a token
\* with one IPv4 endpoint).
PrivateTokenRecovered ==
    (tok.phase = "private" /\ OneIPv4(tok.in.serverAddrs)) =>
        /\ ~tok.err /\ ~tok.panic
        /\ tok.sealedLen = CONNECT_TOKEN_PRIVATE_BYTES
        /\ ~tok.back.err /\ ~tok.back.panic
        /\ tok.back.p.ClientId = tok.in.clientId
        /\ tok.back.p.ServerAddrs = tok.in.serverAddrs
        /\ tok.back.p.ClientKey = KeyA
        /\ tok.back.p.ServerKey = KeyB
        /\ tok.back.p.UserData = tok.in.userData

(***************************************************************************)
(* SpecRequest: RequestPacket.Read of one connection request, on a server  *)
(* with protocol id ProtocolA whose clock reads `now`.  The request is     *)
(* described by its envelope (versionInfo, protocolId, expire, sequence),  *)
(* by what its private token was sealed with, and by `delta`, the bytes    *)
(* the datagram has more or less than a request has.                       *)
(***************************************************************************)
\* "NETCODE 0.99\0"
OldVersion == Bytes(<<78, 69, 84, 67, 79, 68, 69, 32, 48, 46, 57, 57, 0>>)

\* Clock readings: zero, around a byte boundary, one with a carry into the
\* fifth byte when incremented, and the last but one value.
RequestNows ==
    {U64Zero, U64(1), U64(255), U64(1000), <<255, 255, 255, 255, 0, 0, 0, 0>>,
     <<254, 255, 255, 255, 255, 255, 255, 255>>}

\* A request as a conforming client sends it for a token that expires at
\* `expire`, received when the server's clock reads `now`.
RequestAt(now, expire) ==
    [now |-> now, versionInfo |-> VERSION_INFO, protocolId |-> ProtocolA,
     expire |-> expire, sequence |-> TokenSequence,
     sealedProtocolId |-> ProtocolA, sealedExpire |-> expire,
     sealedSequence |-> TokenSequence, sealKey |-> PrivateKey,
     privateKey |-> PrivateKey, delta |-> 0]

RequestInputs ==
    {RequestAt(now, expire) :
        now \in RequestNows,
        expire \in {U64Zero, U64(255), U64(256), U64(1000), U64(1001), U64Max}}
    \cup {RequestAt(now, now) : now \in RequestNows}
    \cup {RequestAt(now, U64Inc(now, 1)) : now \in RequestNows}
    \cup [now : {CurrentTimestamp}, versionInfo : {VERSION_INFO, OldVersion},
          protocolId : {ProtocolA, ProtocolB}, expire : {ExpireTimestamp, U64(2000)},
          sequence : {TokenSequence, U64(4)},
          sealedProtocolId : {ProtocolA, ProtocolB},
          sealedExpire : {ExpireTimestamp, U64(999)},
          sealedSequence : {TokenSequence}, sealKey : {PrivateKey, NilKey},
          privateKey : {PrivateKey, NilKey}, delta : {-1, 0, 1}]

\* The datagram of a request, in the wire format.
RequestFrame(rq) ==
    LET resized(whole) ==
            IF rq.delta < 0 THEN SubSeq(whole, 1, Len(whole) + rq.delta)
            ELSE whole \o Zeros(rq.delta)
    IN  resized(<<Byte(ConnectionRequest)>> \o rq.versionInfo \o Bytes(rq.protocolId)
                \o Bytes(rq.expire) \o Bytes(rq.sequence)
                \o WireSealedToken(WirePrivateToken(U64(7), <<AddrV4>>, KeyA, KeyB,
                                                    Pattern(USER_DATA_BYTES)),
                                   rq.sealedProtocolId, rq.sealedExpire,
                                   rq.sealedSequence, rq.sealKey))

InitRequest ==
    /\ Init!1 /\ Init!2 /\ Init!4 /\ Init!5 /\ Init!6 /\ Init!7 /\ Init!8
    /\ rx \in [phase : {"in"}, rq : RequestInputs]

ReadRequest ==
    /\ rx.phase = "in"
    /\ LET read(r) ==
               /\ rx' = [phase |-> "out", rq |-> rx.rq,
                         err |-> r.err, panic |-> r.panic, p |-> r.p]
               /\ replay' = r.replay.rp
       IN  read(Decode(RequestFrame(rx.rq), ProtocolA, rx.rq.now, KeyA,
                       rx.rq.privateKey, AllAllowed, replay))
    /\ UNCHANGED <<sq, tx, seen, accepted, tok, instance>>

NextRequest == ReadRequest

SpecRequest == InitRequest /\ [][NextRequest]_vars

\* A request that is valid but for its expiry.
RequestValid(rq) ==
    /\ rq.versionInfo = VERSION_INFO
    /\ rq.protocolId = ProtocolA
    /\ rq.sealedProtocolId = rq.protocolId
    /\ rq.sealedExpire = rq.expire
    /\ rq.sealedSequence = rq.sequence
    /\ rq.sealKey = PrivateKey
    /\ rq.privateKey = PrivateKey
    /\ rq.delta = 0

RequestAccepted == rx.phase = "out" /\ ~rx.err /\ ~rx.panic

RequestRejected == rx.phase = "out" /\ rx.err /\ ~rx.panic

\* C11: an otherwise valid request is rejected when its expire timestamp is
\* at most the server's clock, equality included, and accepted when it is
\* later, in particular when it is the clock's reading plus one.
ExpiredRequestRejected ==
    (rx.phase = "out" /\ RequestValid(rx.rq)) =>
        /\ (rx.rq.expire = rx.rq.now \/ U64Lt(rx.rq.expire, rx.rq.now))
               => RequestRejected /\ rx.p.Token = NilToken
        /\ U64Lt(rx.rq.now, rx.rq.expire) => RequestAccepted
        /\ rx.rq.expire = U64Inc(rx.rq.now, 1) => RequestAccepted

\* A request that expires one second after a clock reading of 2^32 - 1,
\* accepted.
ExpiredRequestWitness ==
    /\ rx.phase = "out" /\ RequestValid(rx.rq)
    /\ rx.rq.now = <<255, 255, 255, 255, 0, 0, 0, 0>>
    /\ rx.rq.expire = <<0, 0, 0, 0, 1, 0, 0, 0>>
    /\ RequestAccepted

\* A request whose expire timestamp equals the clock's reading, rejected.
ExpiredRequestAtNow ==
    /\ rx.phase = "out" /\ RequestValid(rx.rq)
    /\ rx.rq.expire = rx.rq.now
    /\ RequestRejected

\* The Read half of C12: a request is rejected, and no token is produced,
\* when the datagram's length is not that of a request, when its version
\* info is not VERSION_INFO or when its protocol id is not the server's.
RequestReadExact ==
    (rx.phase = "out"
     /\ (rx.rq.delta # 0 \/ rx.rq.versionInfo # VERSION_INFO
         \/ rx.rq.protocolId # ProtocolA))
        => RequestRejected /\ rx.p.Token = NilToken

(***************************************************************************)
(* SpecRequestWrite: RequestPacket.Write of one request packet into a      *)
(* fresh buffer.                                                           *)
(***************************************************************************)
RequestBytes == 1 + VERSION_INFO_BYTES + 8 + 8 + 8 + CONNECT_TOKEN_PRIVATE_BYTES

RequestWriteInputs ==
    [bufferLen : {0, 1, RequestBytes - 1, RequestBytes, RequestBytes + 1,
                  MAX_PACKET_BYTES, CONNECT_TOKEN_BYTES},
     versionLen : {VERSION_INFO_BYTES - 1, VERSION_INFO_BYTES, VERSION_INFO_BYTES + 1},
     tokenLen : {CONNECT_TOKEN_PRIVATE_BYTES - 1, CONNECT_TOKEN_PRIVATE_BYTES,
                 CONNECT_TOKEN_PRIVATE_BYTES + 1}]

\* The packet of an input: version info and token data of the given lengths.
RequestPacketOf(in) ==
    [RequestPacket EXCEPT !.VersionInfo = SubSeq(VERSION_INFO \o <<Byte(0)>>, 1,
                                                 in.versionLen),
                          !.ProtocolId = ProtocolA,
                          !.ConnectTokenExpireTimestamp = ExpireTimestamp,
                          !.ConnectTokenSequence = TokenSequence,
                          !.ConnectTokenData = Pattern(in.tokenLen)]

\* The bytes of a request packet, in the order Write puts them.
RequestImage(p) ==
    <<Byte(ConnectionRequest)>> \o p.VersionInfo \o Bytes(p.ProtocolId)
    \o Bytes(p.ConnectTokenExpireTimestamp) \o Bytes(p.ConnectTokenSequence)
    \o p.ConnectTokenData

InitRequestWrite ==
    /\ Init!1 /\ Init!3 /\ Init!4 /\ Init!5 /\ Init!6 /\ Init!7 /\ Init!8
    /\ tx \in [phase : {"in"}, in : RequestWriteInputs]

WriteRequest ==
    /\ tx.phase = "in"
    /\ LET written(w) ==
               tx' = [phase |-> "out", in |-> tx.in, p |-> RequestPacketOf(tx.in),
                      ret |-> w.ret, err |-> w.err, panic |-> w.panic, mem |-> w.mem]
       IN  written(RequestPacketWrite(RequestPacketOf(tx.in), Zeros(tx.in.bufferLen),
                                      MakeSlice(tx.in.bufferLen)))
    /\ UNCHANGED <<sq, rx, replay, seen, accepted, tok, instance>>

NextRequestWrite == WriteRequest

SpecRequestWrite == InitRequestWrite /\ [][NextRequestWrite]_vars

\* C12 (Write): RequestPacket.Write either returns an error, or returns 1062
\* having written the 1062 bytes of the request to the front of the buffer.
RequestWriteExact ==
    tx.phase = "out" =>
        /\ ~tx.panic
        /\ \/ tx.err /\ tx.ret = -1
           \/ /\ ~tx.err
              /\ tx.ret = RequestBytes
              /\ Len(RequestImage(tx.p)) = RequestBytes
              /\ tx.in.bufferLen >= RequestBytes
              /\ SubSeq(tx.mem, 1, RequestBytes) = RequestImage(tx.p)

\* Write never returns a number other than 1062 without an error.
RequestWriteReturns ==
    tx.phase = "out" => ~tx.panic /\ (tx.err \/ tx.ret = RequestBytes)

(***************************************************************************)
(* SpecShared: WriteShared of a shared-token record into a fresh buffer,   *)
(* then ReadShared of that buffer into a receiving record: a new           *)
(* sharedTokenData{} ("nil", as in TestReadWriteShared) or one whose keys  *)
(* are already allocated ("made").                                         *)
(***************************************************************************)
AddrLoopback6 == [ip |-> <<0, 0, 0, 0, 0, 0, 0, 0, 0, 0, 0, 0, 0, 0, 0, 1>>, port |-> 40000]

SharedAddrs == TokenAddrs \cup {<<AddrLoopback6>>, <<AddrV4b>>}

SharedInputs ==
    [serverAddrs : SharedAddrs,
     clientKey : {KeyA, KeyB},
     receiver : {"nil", "made"},
     bufferLen : {CONNECT_TOKEN_BYTES, CONNECT_TOKEN_PRIVATE_BYTES, KEY_BYTES}]

SharedOf(in) ==
    [ServerAddrs |-> in.serverAddrs, ClientKey |-> in.clientKey, ServerKey |-> PrivateKey]

Receiver(in) ==
    IF in.receiver = "nil"
    THEN [ServerAddrs |-> <<>>, ClientKey |-> NilKey, ServerKey |-> NilKey]
    ELSE [ServerAddrs |-> <<>>, ClientKey |-> Zeros(KEY_BYTES),
          ServerKey |-> Zeros(KEY_BYTES)]

InitShared ==
    /\ Init!1 /\ Init!2 /\ Init!3 /\ Init!4 /\ Init!5 /\ Init!6 /\ Init!8
    /\ tok \in [phase : {"in"}, in : SharedInputs]

\* `start` keeps the whole buffer, as in the test; ReadShared is given it.
SharedRoundTrip ==
    /\ tok.phase = "in"
    /\ LET read(w, r) ==
               tok' = [phase |-> "shared", in |-> tok.in,
                       err |-> w.err, panic |-> w.panic,
                       back |-> IF w.panic THEN [shared |-> Receiver(tok.in), err |-> TRUE]
                                ELSE r]
           written(w) ==
               read(w, ReadShared(Receiver(tok.in), w.mem, MakeSlice(tok.in.bufferLen)))
       IN  written(WriteShared(SharedOf(tok.in), Zeros(tok.in.bufferLen),
                               MakeSlice(tok.in.bufferLen)))
    /\ UNCHANGED <<sq, tx, rx, replay, seen, accepted, instance>>

NextShared == SharedRoundTrip

SpecShared == InitShared /\ [][NextShared]_vars

\* C13: ReadShared on the bytes WriteShared wrote (into a buffer of 2048
\* bytes) returns no error and a record with the keys and the server addresses
\* written.
SharedRecovered ==
    (tok.phase = "shared" /\ tok.in.bufferLen = CONNECT_TOKEN_BYTES) =>
        /\ ~tok.err /\ ~tok.panic
        /\ ~tok.back.err
        /\ tok.back.shared.ClientKey = tok.in.clientKey
        /\ tok.back.shared.ServerKey = PrivateKey
        /\ tok.back.shared.ServerAddrs = tok.in.serverAddrs

\* The same for a receiving record with allocated keys and one IPv4 server.
SharedRecoveredMade ==
    (tok.phase = "shared" /\ tok.in.bufferLen = CONNECT_TOKEN_BYTES
     /\ tok.in.receiver = "made" /\ OneIPv4(tok.in.serverAddrs)) =>
        /\ ~tok.err /\ ~tok.panic
        /\ ~tok.back.err
        /\ tok.back.shared.ClientKey = tok.in.clientKey
        /\ tok.back.shared.ServerKey = PrivateKey
        /\ tok.back.shared.ServerAddrs = tok.in.serverAddrs

\* The test's case: the server ::1, a new receiving record.
SharedRecoveredTest ==
    (tok.phase = "shared" /\ tok.in.bufferLen = CONNECT_TOKEN_BYTES
     /\ tok.in.receiver = "nil" /\ tok.in.serverAddrs = <<AddrLoopback6>>) =>
        /\ ~tok.back.err
        /\ tok.back.shared.ClientKey = tok.in.clientKey
        /\ tok.back.shared.ServerKey = PrivateKey

\* What ReadShared leaves in a new receiving record: no key bytes at all.
SharedKeysLost ==
    (tok.phase = "shared" /\ tok.in.bufferLen = CONNECT_TOKEN_BYTES
     /\ tok.in.receiver = "nil") =>
        /\ ~tok.back.err
        /\ tok.back.shared.ClientKey = NilKey
        /\ tok.back.shared.ServerKey = NilKey

(***************************************************************************)
(* SpecTamper: one authentic sequenced datagram of a client (KeyA,         *)
(* ProtocolA), decoded as it is, or with another key or protocol id, or    *)
(* after one change to the frame: the type nibble, a sequence byte, a      *)
(* byte of the ciphertext or of its tag.                                   *)
(***************************************************************************)
TamperDatagrams ==
    {Datagram(t, sequence, WireBody(t, KeyA, ProtocolA), KeyA, ProtocolA) :
        t \in SequencedTypes, sequence \in DecodeSequences}

Tamper(kind, arg) == [kind |-> kind, arg |-> arg]

\* The ciphertext's first byte, the tag's first byte and the tag's last.
CipherPlaces(dg) == {1, Len(dg.body) + 1, Len(dg.body) + MAC_BYTES}

Tampers(dg) ==
    {Tamper("none", 0), Tamper("key", 0), Tamper("protocol", 0)}
    \cup {Tamper("type", t) : t \in SequencedTypes \ {dg.type}}
    \cup {Tamper("sequence", i) : i \in 1..MinBytes(dg.sequence)}
    \cup {Tamper("cipher", i) : i \in CipherPlaces(dg)}

Changed(cell) == [cell EXCEPT !.v = (@ + 1) % 256]

Tampered(frame, dg, tamper) ==
    CASE tamper.kind = "type" ->
             [frame EXCEPT ![1] = Byte(16 * (@.v \div 16) + tamper.arg)]
      [] tamper.kind = "sequence" ->
             [frame EXCEPT ![1 + tamper.arg] = Changed(@)]
      [] tamper.kind = "cipher" ->
             [frame EXCEPT ![1 + MinBytes(dg.sequence) + tamper.arg] = Changed(@)]
      [] OTHER -> frame

InitTamper ==
    /\ Init!1 /\ Init!2 /\ Init!4 /\ Init!5 /\ Init!6 /\ Init!7 /\ Init!8
    /\ rx \in {[phase |-> "in", dg |-> dg, tamper |-> tamper] :
                  dg \in TamperDatagrams, tamper \in UNION {Tampers(d) : d \in TamperDatagrams}}
    /\ rx.tamper \in Tampers(rx.dg)

DecodeTampered ==
    /\ rx.phase = "in"
    /\ LET read(frame, r) ==
               /\ rx' = [phase |-> "out", dg |-> rx.dg, tamper |-> rx.tamper,
                         made |-> NewPacket(frame, MakeSlice(Len(frame))),
                         err |-> r.err, panic |-> r.panic, p |-> r.p]
               /\ replay' = r.replay.rp
           framed(frame) ==
               read(frame,
                    Decode(frame,
                           IF rx.tamper.kind = "protocol" THEN ProtocolB ELSE ProtocolA,
                           CurrentTimestamp,
                           IF rx.tamper.kind = "key" THEN KeyB ELSE KeyA,
                           PrivateKey, AllAllowed, replay))
       IN  framed(Tampered(WireFrame(rx.dg), rx.dg, rx.tamper))
    /\ UNCHANGED <<sq, tx, seen, accepted, tok, instance>>

NextTamper == DecodeTampered

SpecTamper == InitTamper /\ [][NextTamper]_vars

\* C14: a sequenced frame decodes under the key and protocol id it was sealed
\* for and as it was sent; with another key, another protocol id, a changed
\* type nibble, a changed sequence byte or a changed byte of the ciphertext or
\* tag, decoding returns an error and the packet object stays as NewPacket
\* made it.
TamperedRejected ==
    rx.phase = "out" =>
        /\ ~rx.panic
        /\ rx.tamper.kind = "none" => (~rx.err /\ rx.p.type = rx.dg.type)
        /\ rx.tamper.kind # "none" => (rx.err /\ rx.p = rx.made)

\* A ConnectionChallenge frame relabelled as ConnectionResponse was refused.
RelabelledWitness ==
    /\ rx.phase = "out"
    /\ rx.dg.type = ConnectionChallenge
    /\ rx.tamper = Tamper("type", ConnectionResponse)
    /\ rx.made.type = ConnectionResponse
    /\ rx.err
    /\ rx.p = rx.made

\* The tag's last byte was changed, and the frame was refused.
ChangedTagWitness ==
    /\ rx.phase = "out"
    /\ rx.dg.type = ConnectionPayload
    /\ rx.tamper = Tamper("cipher", Len(rx.dg.body) + MAC_BYTES)
    /\ rx.err

(***************************************************************************)
(* SpecNoKey: one well-formed datagram decoded by a server that has or has *)
(* not its private key and the client's receive key.  A datagram sealed    *)
(* under the nil key is one the AEAD would open with the nil key.          *)
(***************************************************************************)
NoKeyDatagrams ==
    {Datagram(t, sequence, WireBody(t, key, ProtocolA), key, ProtocolA) :
        t \in SequencedTypes, sequence \in DecodeSequences, key \in {KeyA, NilKey}}
    \cup {Datagram(ConnectionRequest, U64Zero, WireBody(ConnectionRequest, key, ProtocolA),
                   key, ProtocolA) : key \in {PrivateKey, NilKey}}

InitNoKey ==
    /\ Init!1 /\ Init!2 /\ Init!4 /\ Init!5 /\ Init!6 /\ Init!7 /\ Init!8
    /\ rx \in [phase : {"in"}, dg : NoKeyDatagrams,
               readPacketKey : {KeyA, NilKey}, privateKey : {PrivateKey, NilKey}]

\* Whether the AEAD opens the sealed part of a sequenced datagram with `key`.
Opens(dg, key) ==
    LET sealed(frame, n) ==
            ~DecryptAead(SubSeq(frame, 2 + n, Len(frame)),
                         VERSION_INFO \o Bytes(ProtocolA) \o <<frame[1]>>,
                         Bytes(dg.sequence), key).err
    IN  sealed(WireFrame(dg), MinBytes(dg.sequence))

DecodeNoKey ==
    /\ rx.phase = "in"
    /\ LET read(frame, r) ==
               /\ rx' = [phase |-> "out", dg |-> rx.dg,
                         readPacketKey |-> rx.readPacketKey,
                         privateKey |-> rx.privateKey,
                         made |-> NewPacket(frame, MakeSlice(Len(frame))),
                         before |-> replay,
                         err |-> r.err, panic |-> r.panic, p |-> r.p]
               /\ replay' = r.replay.rp
           framed(frame) ==
               read(frame, Decode(frame, ProtocolA, CurrentTimestamp, rx.readPacketKey,
                                  rx.privateKey, AllAllowed, replay))
       IN  framed(WireFrame(rx.dg))
    /\ UNCHANGED <<sq, tx, seen, accepted, tok, instance>>

NextNoKey == DecodeNoKey

SpecNoKey == InitNoKey /\ [][NextNoKey]_vars

\* C15: a ConnectionRequest read with a nil private key, and a packet of type
\* 1..6 read with a nil receive key, is answered with an error; the packet
\* object is as NewPacket made it and the replay window is untouched, also
\* when the datagram is one the nil key would open.
MissingKeyRejected ==
    rx.phase = "out" =>
        /\ (rx.dg.type = ConnectionRequest /\ rx.privateKey = NilKey)
           => (rx.err /\ ~rx.panic /\ rx.p = rx.made /\ replay = rx.before)
        /\ (rx.dg.type \in SequencedTypes /\ rx.readPacketKey = NilKey)
           => (rx.err /\ ~rx.panic /\ rx.p = rx.made /\ replay = rx.before)

\* A KeepAlive sealed under the nil key, which the AEAD opens with the nil
\* key, was refused by a server without the receive key.
MissingReceiveKeyWitness ==
    /\ rx.phase = "out"
    /\ rx.dg.type = ConnectionKeepAlive
    /\ rx.dg.key = NilKey
    /\ rx.readPacketKey = NilKey
    /\ Opens(rx.dg, NilKey)
    /\ rx.err

\* A request whose token is sealed under the nil key was refused by a server
\* without its private key.
MissingPrivateKeyWitness ==
    /\ rx.phase = "out"
    /\ rx.dg.type = ConnectionRequest
    /\ rx.dg.key = NilKey
    /\ rx.privateKey = NilKey
    /\ rx.err

\* With the keys present the same datagrams are accepted.
PresentKeyAccepted ==
    (rx.phase = "out" /\ rx.dg.key # NilKey
     /\ rx.readPacketKey = KeyA /\ rx.privateKey = PrivateKey)
        => (~rx.err /\ ~rx.panic)

(***************************************************************************)
(* The challenge token.  A token is the record [ClientId,                  *)
(* UserData, mem, TokenData]: TokenData a slice over the buffer `mem`      *)
(* NewChallengeToken makes.                                                *)
(***************************************************************************)
NewChallengeToken(clientId) ==
    [ClientId |-> clientId,
     UserData |-> Zeros(USER_DATA_BYTES),
     mem |-> Zeros(CHALLENGE_TOKEN_BYTES - MAC_BYTES),
     TokenData |-> MakeSlice(CHALLENGE_TOKEN_BYTES - MAC_BYTES)]

\* Write returning t.TokenData as the writes left it, not `ref`.
ChallengeTokenWriteCursor(t, userData) ==
    LET user(w) == [t |-> [t EXCEPT !.UserData = Copy(t.UserData, userData),
                                    !.mem = w.mem, !.TokenData = w.buf],
                    ref |-> w.buf]
        client(w) == user(WriteBytes(w.mem, w.buf, userData))
    IN  client(WriteUint64(t.mem, t.TokenData, t.ClientId))

\* Returns [t, ref]: ref is TokenData as it was before the writes, which
\* leave t.TokenData behind what they wrote; their errors are dropped.
ChallengeTokenWrite(t, userData) ==
    LET user(w) == [t |-> [t EXCEPT !.UserData = Copy(t.UserData, userData),
                                    !.mem = w.mem, !.TokenData = w.buf],
                    ref |-> t.TokenData]
        client(w) == user(WriteBytes(w.mem, w.buf, userData))
    IN  client(WriteUint64(t.mem, t.TokenData, t.ClientId))

\* Returns [err, out]: out is what *tokenBuffer holds afterwards.
EncryptChallengeToken(tokenBuffer, sequence, key) ==
    LET sealed(nonce) ==
            IF EncryptAeadErr(key) THEN [err |-> TRUE, out |-> tokenBuffer]
            ELSE [err |-> FALSE, out |-> EncryptAead(tokenBuffer, <<>>, nonce, key)]
    IN  sealed(WriteUint64(Zeros(SizeUint64), MakeSlice(SizeUint64), sequence).mem)

DecryptChallengeToken(tokenBuffer, sequence, key) ==
    LET opened(nonce) == DecryptAead(tokenBuffer, <<>>, nonce, key)
    IN  opened(WriteUint64(Zeros(SizeUint64), MakeSlice(SizeUint64), sequence).mem)

\* Returns [err, panic, token]; on an error the token is nil.
ReadChallengeToken(buffer) ==
    LET none(err, panic) == [err |-> err, panic |-> panic, token |-> NilToken]
        user(token, r) ==
            IF r.err THEN none(TRUE, FALSE)
            ELSE [err |-> FALSE, panic |-> FALSE,
                  token |-> [token EXCEPT !.UserData = r.out]]
        client(r) ==
            IF r.panic THEN none(FALSE, TRUE)
            ELSE IF r.err THEN none(TRUE, FALSE)
            ELSE user(NewChallengeToken(r.out),
                      ReadBytes(buffer, r.buf, Zeros(USER_DATA_BYTES), USER_DATA_BYTES))
    IN  client(ReadUint64(buffer, MakeSlice(Len(buffer)), U64Zero))

(***************************************************************************)
(* SpecChallenge: a token is written and sealed by the server, then        *)
(* opened with a sequence and key that are or are not the sealing ones,    *)
(* and read.                                                               *)
(***************************************************************************)
ChallengeInputs ==
    [clientId : {U64(7), <<0, 0, 0, 0, 1, 0, 0, 0>>, U64Max},
     userData : {Pattern(USER_DATA_BYTES), Zeros(USER_DATA_BYTES)},
     sequence : {U64Zero, U64(1000)},
     key : {KeyA, KeyB},
     openSequence : {U64Zero, U64(1000)},
     openKey : {KeyA, KeyB}]

InitChallenge ==
    /\ Init!1 /\ Init!2 /\ Init!3 /\ Init!4 /\ Init!5 /\ Init!6 /\ Init!8
    /\ tok \in [phase : {"in"}, in : ChallengeInputs]

ChallengeRoundTrip ==
    /\ tok.phase = "in"
    /\ LET read(enc, dec, r) ==
               tok' = [phase |-> "challenge", in |-> tok.in,
                       sealErr |-> enc.err, sealed |-> enc.out,
                       openErr |-> dec.err,
                       readErr |-> r.err, panic |-> r.panic, token |-> r.token]
           opened(enc, dec) ==
               read(enc, dec, IF dec.err THEN [err |-> FALSE, panic |-> FALSE,
                                               token |-> NilToken]
                              ELSE ReadChallengeToken(dec.out))
           sealed(enc) ==
               opened(enc, DecryptChallengeToken(enc.out, tok.in.openSequence,
                                                 tok.in.openKey))
           written(w) ==
               sealed(EncryptChallengeToken(Content(w.t.mem, w.ref), tok.in.sequence,
                                            tok.in.key))
       IN  written(ChallengeTokenWrite(NewChallengeToken(tok.in.clientId),
                                       tok.in.userData))
    /\ UNCHANGED <<sq, tx, rx, replay, seen, accepted, instance>>

NextChallenge == ChallengeRoundTrip

SpecChallenge == InitChallenge /\ [][NextChallenge]_vars

\* C16: Write then EncryptChallengeToken leaves CHALLENGE_TOKEN_BYTES bytes;
\* DecryptChallengeToken with the sealing sequence and key, then
\* ReadChallengeToken, returns the client id and the user data written;
\* with another sequence or another key DecryptChallengeToken fails.
ChallengeTokenRoundTrip ==
    tok.phase = "challenge" =>
        /\ ~tok.sealErr
        /\ Len(tok.sealed) = CHALLENGE_TOKEN_BYTES
        /\ ~tok.panic
        /\ (tok.in.openSequence = tok.in.sequence /\ tok.in.openKey = tok.in.key)
           => /\ ~tok.openErr /\ ~tok.readErr
              /\ tok.token.ClientId = tok.in.clientId
              /\ tok.token.UserData = tok.in.userData
        /\ (tok.in.openSequence # tok.in.sequence \/ tok.in.openKey # tok.in.key)
           => (tok.openErr /\ tok.token = NilToken)

\* A token for client 2^64 - 1 was sealed into 300 bytes and read back.
ChallengeTokenWitness ==
    /\ tok.phase = "challenge"
    /\ tok.in.clientId = U64Max
    /\ tok.in.userData = Pattern(USER_DATA_BYTES)
    /\ tok.in.openSequence = tok.in.sequence /\ tok.in.openKey = tok.in.key
    /\ Len(tok.sealed) = CHALLENGE_TOKEN_BYTES
    /\ tok.token # NilToken
    /\ tok.token.ClientId = U64Max
    /\ tok.token.UserData = Pattern(USER_DATA_BYTES)

\* The same token opened with the other key was refused.
ChallengeWrongKeyWitness ==
    /\ tok.phase = "challenge"
    /\ tok.in.openSequence = tok.in.sequence /\ tok.in.openKey # tok.in.key
    /\ tok.openErr

(***************************************************************************)
(* serializer.go: the signed integers.  An int8, int16 or int32 is an      *)
(* integer; an int64 is its eight two's-complement bytes, lowest first.    *)
(* byte(in >> 8k) is (in \div 256^k) % 256, the shift being arithmetic.    *)
(***************************************************************************)
SizeInt8 == SizeUint8

SizeInt16 == SizeUint16

SizeInt32 == SizeUint32

SizeInt64 == SizeUint64

ByteOf(in, k) == (in \div (256 ^ k)) % 256

\* int8(b), and the top byte of a wider signed integer.
SignedByte(b) == IF b >= 128 THEN b - 256 ELSE b

WriteInt8(mem, buf, in) ==
    IF buf.len < SizeInt8
    THEN [mem |-> mem, buf |-> NilSlice, err |-> TRUE, panic |-> FALSE]
    ELSE [mem |-> Store(mem, buf.off, <<Byte(ByteOf(in, 0))>>), buf |-> From(buf, SizeInt8),
          err |-> FALSE, panic |-> FALSE]

WriteInt16(mem, buf, in) ==
    IF buf.len < SizeInt16
    THEN [mem |-> mem, buf |-> NilSlice, err |-> TRUE, panic |-> FALSE]
    ELSE [mem |-> Store(mem, buf.off, <<Byte(ByteOf(in, 0)), Byte(ByteOf(in, 1))>>),
          buf |-> From(buf, SizeInt16), err |-> FALSE, panic |-> FALSE]

WriteInt32(mem, buf, in) ==
    IF buf.len < SizeInt32
    THEN [mem |-> mem, buf |-> NilSlice, err |-> TRUE, panic |-> FALSE]
    ELSE [mem |-> Store(mem, buf.off,
                        <<Byte(ByteOf(in, 0)), Byte(ByteOf(in, 1)),
                          Byte(ByteOf(in, 2)), Byte(ByteOf(in, 3))>>),
          buf |-> From(buf, SizeInt32), err |-> FALSE, panic |-> FALSE]

\* The loop runs to SizeInt64; the slice returned is buf[SizeUint64:].
WriteInt64(mem, buf, in) ==
    IF buf.len < SizeInt64
    THEN [mem |-> mem, buf |-> NilSlice, err |-> TRUE, panic |-> FALSE]
    ELSE [mem |-> Store(mem, buf.off, [i \in 1..SizeInt64 |-> Byte(in[i])]),
          buf |-> From(buf, SizeUint64), err |-> FALSE, panic |-> FALSE]

ReadInt8(mem, buf, out) ==
    IF buf.len < SizeInt8
    THEN [buf |-> NilSlice, err |-> TRUE, panic |-> FALSE, out |-> out]
    ELSE [buf |-> From(buf, SizeInt8), err |-> FALSE, panic |-> FALSE,
          out |-> SignedByte(mem[buf.off + 1].v)]

ReadInt16(mem, buf, out) ==
    IF buf.len < SizeInt16
    THEN [buf |-> NilSlice, err |-> TRUE, panic |-> FALSE, out |-> out]
    ELSE [buf |-> From(buf, SizeInt16), err |-> FALSE, panic |-> FALSE,
          out |-> BitOr(ByteOf(out, 0), mem[buf.off + 1].v)
                  + 256 * SignedByte(BitOr(ByteOf(out, 1), mem[buf.off + 2].v))]

ReadInt32(mem, buf, out) ==
    IF buf.len < SizeInt32
    THEN [buf |-> NilSlice, err |-> TRUE, panic |-> FALSE, out |-> out]
    ELSE [buf |-> From(buf, SizeInt32), err |-> FALSE, panic |-> FALSE,
          out |-> BitOr(ByteOf(out, 0), mem[buf.off + 1].v)
                  + 256 * BitOr(ByteOf(out, 1), mem[buf.off + 2].v)
                  + 65536 * BitOr(ByteOf(out, 2), mem[buf.off + 3].v)
                  + 16777216 * SignedByte(BitOr(ByteOf(out, 3), mem[buf.off + 4].v))]

ReadInt64(mem, buf, out) ==
    IF buf.len < SizeInt64
    THEN [buf |-> NilSlice, err |-> TRUE, panic |-> FALSE, out |-> out]
    ELSE [buf |-> From(buf, SizeInt64), err |-> FALSE, panic |-> FALSE,
          out |-> [i \in 1..8 |-> BitOr(out[i], mem[buf.off + i].v)]]

(***************************************************************************)
(* SpecCodec: one value written into a fresh buffer of 0..9 bytes with one *)
(* of the write operations, and the buffer then read from its start with   *)
(* the matching read operation into a zero output.                         *)
(***************************************************************************)
IntegerOps == {"Uint8", "Uint16", "Uint32", "Uint64", "Int8", "Int16", "Int32", "Int64"}

BytesOps == {"Bytes", "BytesN"}

\* uint32 values stop at 2^31 - 1, the largest integer of the checker.
CodecValues(op) ==
    CASE op = "Uint8" -> {0, 1, 127, 128, 255}
      [] op = "Uint16" -> {0, 1, 255, 256, 4660, 32768, 65535}
      [] op = "Uint32" -> {0, 1, 65536, 305419896, 2147483647}
      [] op = "Int8" -> {-128, -1, 0, 1, 127}
      [] op = "Int16" -> {-32768, -1, 0, 1, 4660, 32767}
      [] op = "Int32" -> {-2147483647 - 1, -1, 0, 1, 305419896, 2147483647}
      [] op \in {"Uint64", "Int64"} ->
             {U64Zero, U64(1), <<8, 7, 6, 5, 4, 3, 2, 1>>,
              <<0, 0, 0, 0, 0, 0, 0, 128>>, U64Max}
      [] op \in BytesOps -> {Pattern(n) : n \in {0, 1, 5, 9}}

CodecBufferLens == 0..(SizeUint64 + 1)

Width(op, value) ==
    CASE op \in {"Uint8", "Int8"} -> SizeUint8
      [] op \in {"Uint16", "Int16"} -> SizeUint16
      [] op \in {"Uint32", "Int32"} -> SizeUint32
      [] op \in {"Uint64", "Int64"} -> SizeUint64
      [] op \in BytesOps -> Len(value)

CodecWrite(op, mem, buf, value) ==
    CASE op = "Uint8" -> WriteUint8(mem, buf, value)
      [] op = "Uint16" -> WriteUint16(mem, buf, value)
      [] op = "Uint32" -> WriteUint32(mem, buf, value)
      [] op = "Uint64" -> WriteUint64(mem, buf, value)
      [] op = "Int8" -> WriteInt8(mem, buf, value)
      [] op = "Int16" -> WriteInt16(mem, buf, value)
      [] op = "Int32" -> WriteInt32(mem, buf, value)
      [] op = "Int64" -> WriteInt64(mem, buf, value)
      [] op = "Bytes" -> WriteBytes(mem, buf, value)
      [] op = "BytesN" -> WriteBytesN(mem, buf, value, Len(value))

CodecRead(op, mem, buf, length) ==
    CASE op = "Uint8" -> ReadUint8(mem, buf, 0)
      [] op = "Uint16" -> ReadUint16(mem, buf, 0)
      [] op = "Uint32" -> ReadUint32(mem, buf, 0)
      [] op = "Uint64" -> ReadUint64(mem, buf, U64Zero)
      [] op = "Int8" -> ReadInt8(mem, buf, 0)
      [] op = "Int16" -> ReadInt16(mem, buf, 0)
      [] op = "Int32" -> ReadInt32(mem, buf, 0)
      [] op = "Int64" -> ReadInt64(mem, buf, U64Zero)
      [] op \in BytesOps -> ReadBytes(mem, buf, <<>>, length)

InitCodec ==
    /\ Init!1 /\ Init!3 /\ Init!4 /\ Init!5 /\ Init!6 /\ Init!7 /\ Init!8
    /\ \E op \in IntegerOps \cup BytesOps :
           tx \in [phase : {"in"}, op : {op}, value : CodecValues(op),
                   bufferLen : CodecBufferLens]

WriteThenRead ==
    /\ tx.phase = "in"
    /\ LET done(w, r) ==
               tx' = [phase |-> "out", op |-> tx.op, value |-> tx.value,
                      bufferLen |-> tx.bufferLen,
                      width |-> Width(tx.op, tx.value),
                      w |-> [err |-> w.err, panic |-> w.panic, left |-> w.buf.len,
                             mem |-> w.mem],
                      r |-> [err |-> r.err, panic |-> r.panic, left |-> r.buf.len,
                             out |-> r.out]]
           written(w) ==
               done(w, CodecRead(tx.op, w.mem, MakeSlice(tx.bufferLen),
                                 Width(tx.op, tx.value)))
       IN  written(CodecWrite(tx.op, Zeros(tx.bufferLen), MakeSlice(tx.bufferLen),
                              tx.value))
    /\ UNCHANGED <<sq, rx, replay, seen, accepted, tok, instance>>

NextCodec == WriteThenRead

SpecCodec == InitCodec /\ [][NextCodec]_vars

\* The little-endian bytes of a value: of a 64-bit value its eight bytes, of
\* an integer its residues.
LittleEndian(value, width) ==
    IF width = SizeUint64 THEN Bytes(value)
    ELSE [k \in 1..width |-> Byte((value \div (256 ^ (k - 1))) % 256)]

\* C17: an operation given a buffer shorter than it needs returns an error,
\* and indexes no byte past the buffer's end (which in Go is a panic).
ShortBufferError ==
    (tx.phase = "out" /\ tx.bufferLen < tx.width) =>
        /\ tx.w.err /\ ~tx.w.panic
        /\ tx.r.err /\ ~tx.r.panic

\* The same for every operation but ReadUint64.
ShortBufferErrorButReadUint64 ==
    (tx.phase = "out" /\ tx.bufferLen < tx.width) =>
        /\ tx.w.err /\ ~tx.w.panic
        /\ tx.op # "Uint64" => (tx.r.err /\ ~tx.r.panic)

\* ReadUint64 on a buffer of 1..7 bytes panics; on an empty one it returns
\* the error.
ReadUint64Short ==
    (tx.phase = "out" /\ tx.op = "Uint64" /\ tx.bufferLen < tx.width) =>
        /\ tx.bufferLen = 0 => (tx.r.err /\ ~tx.r.panic)
        /\ tx.bufferLen > 0 => (~tx.r.err /\ tx.r.panic)

\* C18: an integer of 1, 2, 4 or 8 bytes, unsigned or signed, written into a
\* buffer that holds it and read back into a zero output is the value
\* written; the bytes are its little-endian bytes; the write and the read
\* each leave the buffer shorter by the width.
IntegerRoundTrip ==
    (tx.phase = "out" /\ tx.op \in IntegerOps /\ tx.bufferLen >= tx.width) =>
        /\ ~tx.w.err /\ ~tx.w.panic /\ ~tx.r.err /\ ~tx.r.panic
        /\ tx.r.out = tx.value
        /\ SubSeq(tx.w.mem, 1, tx.width) = LittleEndian(tx.value, tx.width)
        /\ tx.w.left = tx.bufferLen - tx.width
        /\ tx.r.left = tx.bufferLen - tx.width

\* The int16 -32768 was written as 00 80 and read back.
IntegerRoundTripWitness ==
    /\ tx.phase = "out"
    /\ tx.op = "Int16" /\ tx.value = -32768
    /\ tx.bufferLen = SizeInt16 + 1
    /\ SubSeq(tx.w.mem, 1, SizeInt16) = Bytes(<<0, 128>>)
    /\ tx.r.out = -32768
    /\ tx.r.left = 1

\* The uint16 0x1234 was written as 34 12.
Uint16Witness ==
    /\ tx.phase = "out"
    /\ tx.op = "Uint16" /\ tx.value = 4660
    /\ tx.bufferLen = SizeUint16
    /\ SubSeq(tx.w.mem, 1, SizeUint16) = Bytes(<<52, 18>>)
    /\ tx.r.out = 4660

(***************************************************************************)
(* SpecTwice: one authentic datagram of any type, decoded twice against    *)
(* the same replay window of the client, a window that has accepted none,  *)
(* one or two sequences before.                                            *)
(***************************************************************************)
RECURSIVE WindowAfter(_, _)
WindowAfter(rp, sequences) ==
    IF sequences = <<>> THEN rp
    ELSE WindowAfter(AlreadyReceived(rp, Head(sequences)).rp, Tail(sequences))

TwiceSequences == {U64(5), U64(7), U64(300)}

TwiceWindows ==
    {WindowAfter(NewReplayProtection, s) :
        s \in {<<>>, <<U64(5)>>, <<U64(300)>>, <<U64(5), U64(300)>>}}

TwiceDatagrams ==
    {Datagram(t, sequence, WireBody(t, KeyA, ProtocolA), KeyA, ProtocolA) :
        t \in SequencedTypes, sequence \in TwiceSequences}
    \cup {Datagram(ConnectionRequest, U64Zero,
                   WireBody(ConnectionRequest, PrivateKey, ProtocolA),
                   PrivateKey, ProtocolA)}

InitTwice ==
    /\ Init!1 /\ Init!2 /\ Init!5 /\ Init!6 /\ Init!7 /\ Init!8
    /\ replay \in TwiceWindows
    /\ rx \in [phase : {"in"}, dg : TwiceDatagrams]

DecodeAgain(from, to) ==
    /\ rx.phase = from
    /\ LET read(r) ==
               /\ rx' = [phase |-> to, dg |-> rx.dg,
                         window |-> IF from = "in" THEN replay ELSE rx.window,
                         before |-> replay,
                         firstErr |-> IF from = "in" THEN r.err ELSE rx.firstErr,
                         err |-> r.err, panic |-> r.panic]
               /\ replay' = r.replay.rp
       IN  read(Decode(WireFrame(rx.dg), ProtocolA, CurrentTimestamp, KeyA, PrivateKey,
                       AllAllowed, replay))
    /\ UNCHANGED <<sq, tx, seen, accepted, tok, instance>>

DecodeFirst == DecodeAgain("in", "once")

DecodeSecond == DecodeAgain("once", "twice")

NextTwice == DecodeFirst \/ DecodeSecond

SpecTwice == InitTwice /\ [][NextTwice]_vars

Unprotected == {ConnectionDenied, ConnectionChallenge, ConnectionResponse}

\* C19: an authentic ConnectionDenied, ConnectionChallenge or
\* ConnectionResponse datagram decodes without error the first and the second
\* time, whatever the window holds, and an authentic ConnectionRequest
\* likewise; after each decode the window is the one the client had at the
\* start.
WindowOnlyForProtected ==
    (rx.phase \in {"once", "twice"}
     /\ rx.dg.type \in Unprotected \cup {ConnectionRequest}) =>
        /\ ~rx.err /\ ~rx.panic /\ ~rx.firstErr
        /\ replay = rx.window

\* A ConnectionDenied with sequence 5 was decoded twice against a window
\* that had already accepted 5; both decodes succeeded.
DeniedTwiceWitness ==
    /\ rx.phase = "twice"
    /\ rx.dg.type = ConnectionDenied
    /\ rx.dg.sequence = U64(5)
    /\ rx.window = WindowAfter(NewReplayProtection, <<U64(5)>>)
    /\ ~rx.firstErr /\ ~rx.err
    /\ replay = rx.window

\* The window is at work for the three protected types: the second decode is
\* always refused, and a first decode that succeeds changes the window.
ProtectedTwiceRejected ==
    (rx.phase \in {"once", "twice"} /\ rx.dg.type \in SequencedTypes \ Unprotected) =>
        /\ rx.phase = "twice" => rx.err
        /\ (rx.phase = "once" /\ ~rx.err) => replay # rx.window

\* A request that passes every check before the token is opened.
RequestReachesToken(rq) ==
    /\ rq.versionInfo = VERSION_INFO
    /\ rq.protocolId = ProtocolA
    /\ rq.sealKey = PrivateKey
    /\ rq.privateKey = PrivateKey
    /\ rq.delta = 0
    /\ U64Lt(rq.now, rq.expire)

EnvelopeMatches(rq) ==
    /\ rq.sealedProtocolId = rq.protocolId
    /\ rq.sealedExpire = rq.expire
    /\ rq.sealedSequence = rq.sequence

OtherSequenceWitness ==
    /\ rx.phase = "out" /\ RequestReachesToken(rx.rq)
    /\ rx.rq.sealedExpire = rx.rq.expire
    /\ rx.rq.sealedProtocolId = rx.rq.protocolId
    /\ rx.rq.sealedSequence # rx.rq.sequence
    /\ RequestRejected

(***************************************************************************)
(* SpecServers: the number of server endpoints of a token.  A buffer       *)
(* crafted with a count and an address family is given to ReadShared; a    *)
(* record with a list of servers is written by WriteShared and read by     *)
(* ReadShared; a token with a list of servers is generated, written and    *)
(* read by ReadConnectToken.                                               *)
(***************************************************************************)
ServerLists ==
    {[i \in 1..n |-> addr] :
        n \in {0, 1, 2, MAX_SERVERS_PER_CONNECT, MAX_SERVERS_PER_CONNECT + 1},
        addr \in {AddrV4, AddrLoopback6}}

CraftedCounts ==
    {0, 1, 2, MAX_SERVERS_PER_CONNECT, MAX_SERVERS_PER_CONNECT + 1, 65536, 2147483647}

CraftedFamilies == {0, ADDRESS_IPV4, ADDRESS_IPV6, ADDRESS_IPV6 + 1, 255}

\* num_servers, then up to 33 entries of the family (type, address, port),
\* then the two keys.
CraftedShared(count, family) ==
    LET entry == <<family>>
                 \o (IF family = ADDRESS_IPV6
                     THEN <<0, 0, 0, 0, 0, 0, 0, 0, 0, 0, 0, 0, 0, 0, 1, 0>>
                     ELSE <<10, 20, 30, 40>>)
                 \o <<64, 156>>
        entries(n) == [i \in 1..(n * Len(entry)) |-> entry[((i - 1) % Len(entry)) + 1]]
    IN  Bytes(<<count % 256, (count \div 256) % 256, (count \div 65536) % 256,
                (count \div 16777216) % 256>>
              \o entries(IF count > MAX_SERVERS_PER_CONNECT
                         THEN MAX_SERVERS_PER_CONNECT + 1 ELSE count))
        \o KeyA \o KeyB

ServersInput(kind, count, family, serverAddrs, advance) ==
    [phase |-> "in", kind |-> kind, count |-> count, family |-> family,
     serverAddrs |-> serverAddrs, advance |-> advance]

ServersInputs ==
    {ServersInput("crafted", count, family, <<>>, FALSE) :
        count \in CraftedCounts, family \in CraftedFamilies}
    \cup {ServersInput("shared", Len(l), 0, l, FALSE) : l \in ServerLists}
    \cup {ServersInput("token", Len(l), 0, l, advance) :
             l \in ServerLists, advance \in BOOLEAN}

InitServers ==
    /\ Init!1 /\ Init!2 /\ Init!3 /\ Init!4 /\ Init!5 /\ Init!6 /\ Init!8
    /\ tok \in ServersInputs

MadeReceiver ==
    [ServerAddrs |-> <<>>, ClientKey |-> Zeros(KEY_BYTES), ServerKey |-> Zeros(KEY_BYTES)]

ServersOut(writeErr, count, back) ==
    tok' = [phase |-> "servers", kind |-> tok.kind, count |-> tok.count,
            family |-> tok.family, serverAddrs |-> tok.serverAddrs,
            advance |-> tok.advance,
            writeErr |-> writeErr, written |-> count,
            readErr |-> back.err, read |-> Len(back.addrs)]

ReadCrafted ==
    /\ tok.phase = "in" /\ tok.kind = "crafted"
    /\ LET read(buffer, r) ==
               ServersOut(FALSE, tok.count,
                          [err |-> r.err, addrs |-> r.shared.ServerAddrs])
           crafted(buffer) ==
               read(buffer, ReadShared(MadeReceiver, buffer, MakeSlice(Len(buffer))))
       IN  crafted(CraftedShared(tok.count, tok.family))
    /\ UNCHANGED <<sq, tx, rx, replay, seen, accepted, instance>>

\* The count WriteShared wrote is the uint32 at the buffer's start.
WriteReadServers ==
    /\ tok.phase = "in" /\ tok.kind = "shared"
    /\ LET read(w, r) ==
               ServersOut(w.err \/ w.panic, ReadUint32(w.mem, MakeSlice(SizeUint32), 0).out,
                          [err |-> r.err, addrs |-> r.shared.ServerAddrs])
           written(w) ==
               read(w, ReadShared(MadeReceiver, w.mem, MakeSlice(CONNECT_TOKEN_BYTES)))
       IN  written(WriteShared([ServerAddrs |-> tok.serverAddrs, ClientKey |-> KeyA,
                                ServerKey |-> KeyB],
                               Zeros(CONNECT_TOKEN_BYTES), MakeSlice(CONNECT_TOKEN_BYTES)))
    /\ UNCHANGED <<sq, tx, rx, replay, seen, accepted, instance>>

\* Generate and Write on the token service, ReadConnectToken on the client.
GenerateReadServers ==
    /\ tok.phase = "in" /\ tok.kind = "token"
    /\ LET read(bad, r) ==
               ServersOut(bad, Len(tok.serverAddrs),
                          [err |-> r.err \/ r.panic, addrs |-> r.token.ServerAddrs])
           written(g, w) ==
               read(g.err \/ g.panic \/ w.err \/ w.panic,
                    IF g.err \/ g.panic \/ w.err \/ w.panic
                    THEN [err |-> TRUE, panic |-> FALSE, token |-> NewConnectToken]
                    ELSE ReadConnectToken(w.out))
           generated(g) == written(g, ConnectTokenWrite(g.token, tok.advance))
       IN  generated(ConnectTokenGenerate(NewConnectToken, U64(TokenNow), KeyA, KeyB,
                                          tok.advance, U64(7), tok.serverAddrs,
                                          VERSION_INFO, ProtocolA, U64(TokenExpiry), 10,
                                          TokenSequence, Pattern(USER_DATA_BYTES),
                                          PrivateKey))
    /\ UNCHANGED <<sq, tx, rx, replay, seen, accepted, instance>>

NextServers == ReadCrafted \/ WriteReadServers \/ GenerateReadServers

SpecServers == InitServers /\ [][NextServers]_vars

\* C21: ReadShared refuses a count of 0, a count above 32 and an address
\* family other than 1 and 2; WriteShared and Generate with Write, when they
\* return no error, have written a count of 1..32, and what they wrote is
\* read back without error.
EndpointCountBounded ==
    tok.phase = "servers" =>
        /\ (tok.kind = "crafted"
            /\ (tok.count = 0 \/ tok.count > MAX_SERVERS_PER_CONNECT
                \/ tok.family \notin {ADDRESS_IPV4, ADDRESS_IPV6}))
           => tok.readErr
        /\ (tok.kind # "crafted" /\ ~tok.writeErr)
           => /\ tok.written \in 1..MAX_SERVERS_PER_CONNECT
              /\ ~tok.readErr

\* The reading half: ReadShared refuses the three cases and reads every
\* other crafted buffer with as many endpoints as the count says.
ReadSharedRejects ==
    (tok.phase = "servers" /\ tok.kind = "crafted") =>
        IF tok.count = 0 \/ tok.count > MAX_SERVERS_PER_CONNECT
           \/ tok.family \notin {ADDRESS_IPV4, ADDRESS_IPV6}
        THEN tok.readErr
        ELSE ~tok.readErr /\ tok.read = tok.count

\* The writing half, as the code has it: no list is refused, the count
\* written is the length of the list, and the reader accepts it exactly when
\* it is 1..32.
WriteSharedUnchecked ==
    (tok.phase = "servers" /\ tok.kind = "shared") =>
        /\ ~tok.writeErr
        /\ tok.written = Len(tok.serverAddrs)
        /\ tok.readErr <=> tok.written \notin 1..MAX_SERVERS_PER_CONNECT

\* Generate and Write refuse no list either; with a Write whose buffer moves
\* past the shared data, ReadConnectToken accepts the token exactly when the
\* list has 1..32 servers.
GenerateUnchecked ==
    (tok.phase = "servers" /\ tok.kind = "token" /\ tok.advance) =>
        /\ ~tok.writeErr
        /\ tok.readErr <=> Len(tok.serverAddrs) \notin 1..MAX_SERVERS_PER_CONNECT

(***************************************************************************)
(* SpecExpiry: the two timestamps of a connect token.  Generate at a clock *)
(* reading with a tokenExpiry, then Write and ReadConnectToken; and a      *)
(* token whose timestamps are given, written and read.                     *)
(***************************************************************************)
\* 2^64 - a, for a > 0.
U64Neg(a) == U64Add([i \in 1..8 |-> 255 - a[i]], U64(1))

ExpiryNows == {U64(1), U64(TokenNow), <<0, 148, 53, 119, 0, 0, 0, 0>>}

\* tokenExpiry from 0 to 2^64 - 1; now + U64Neg(now) is 2^64, and one below
\* it the sum is 2^64 - 1.
Expiries(now) ==
    {U64Zero, U64(TokenExpiry), <<0, 0, 0, 0, 0, 0, 0, 128>>, U64Max,
     U64Neg(now), U64Add(U64Neg(now), U64Max), U64Add(U64Neg(now), U64(1))}

Timestamps == {U64Zero, U64(999), U64(1000), <<0, 0, 0, 0, 1, 0, 0, 0>>, U64Max}

ExpiryInput(kind, now, tokenExpiry, advance) ==
    [phase |-> "in", kind |-> kind, now |-> now, tokenExpiry |-> tokenExpiry,
     advance |-> advance]

\* For kind "stamped", now is the create and tokenExpiry the expire
\* timestamp of the token.
ExpiryInputs ==
    {ExpiryInput("generate", now, e, advance) :
        now \in ExpiryNows, e \in UNION {Expiries(n) : n \in ExpiryNows},
        advance \in BOOLEAN}
    \cup {ExpiryInput("stamped", c, e, advance) :
             c \in Timestamps, e \in Timestamps, advance \in BOOLEAN}

InitExpiry ==
    /\ Init!1 /\ Init!2 /\ Init!3 /\ Init!4 /\ Init!5 /\ Init!6 /\ Init!8
    /\ tok \in ExpiryInputs
    /\ tok.kind = "generate" => tok.tokenExpiry \in Expiries(tok.now)

ExpiryOut(g, token, w) ==
    LET read(r) ==
            tok' = [phase |-> "expiry", kind |-> tok.kind, now |-> tok.now,
                    tokenExpiry |-> tok.tokenExpiry, advance |-> tok.advance,
                    err |-> g.err \/ g.panic \/ w.err \/ w.panic,
                    create |-> token.CreateTimestamp,
                    expire |-> token.ExpireTimestamp,
                    readErr |-> r.err, readPanic |-> r.panic]
    IN  read(IF g.err \/ g.panic \/ w.err \/ w.panic
             THEN [err |-> TRUE, panic |-> FALSE] ELSE ReadConnectToken(w.out))

GenerateAt(now, tokenExpiry, advance) ==
    ConnectTokenGenerate(NewConnectToken, now, KeyA, KeyB, advance, U64(7), <<AddrV4>>,
                         VERSION_INFO, ProtocolA, tokenExpiry, 10, TokenSequence,
                         Pattern(USER_DATA_BYTES), PrivateKey)

GenerateExpiry ==
    /\ tok.phase = "in" /\ tok.kind = "generate"
    /\ LET generated(g) == ExpiryOut(g, g.token, ConnectTokenWrite(g.token, tok.advance))
       IN  generated(GenerateAt(tok.now, tok.tokenExpiry, tok.advance))
    /\ UNCHANGED <<sq, tx, rx, replay, seen, accepted, instance>>

\* A generated token with its two timestamps replaced, written and read.
ReadStamped ==
    /\ tok.phase = "in" /\ tok.kind = "stamped"
    /\ LET stamped(g, token) == ExpiryOut(g, token, ConnectTokenWrite(token, tok.advance))
           generated(g) ==
               stamped(g, [g.token EXCEPT !.CreateTimestamp = tok.now,
                                          !.ExpireTimestamp = tok.tokenExpiry])
       IN  generated(GenerateAt(U64(TokenNow), U64(TokenExpiry), tok.advance))
    /\ UNCHANGED <<sq, tx, rx, replay, seen, accepted, instance>>

NextExpiry == GenerateExpiry \/ ReadStamped

SpecExpiry == InitExpiry /\ [][NextExpiry]_vars

Later(a, b) == \E i \in 1..8 : a[i] > b[i] /\ \A j \in (i + 1)..8 : a[j] = b[j]

\* C22: a token that Generate produced has a create timestamp that is not
\* later than its expire timestamp, for every tokenExpiry; and
\* ReadConnectToken refuses a buffer whose create timestamp is later than
\* its expire timestamp.
CreateNotAfterExpire ==
    tok.phase = "expiry" =>
        /\ (tok.kind = "generate" /\ ~tok.err) => ~Later(tok.create, tok.expire)
        /\ (tok.kind = "stamped" /\ Later(tok.create, tok.expire)) => tok.readErr

\* The reading half: timestamps in the wrong order are refused, and in the
\* right order they are not what makes a token be refused.
ReadRejectsInverted ==
    (tok.phase = "expiry" /\ tok.kind = "stamped") =>
        /\ ~tok.err /\ ~tok.readPanic
        /\ Later(tok.create, tok.expire) => tok.readErr
        /\ (~Later(tok.create, tok.expire) /\ tok.advance) => ~tok.readErr

\* Generate as the code has it: no tokenExpiry is refused, the expire
\* timestamp is the sum modulo 2^64, and it is before the create timestamp
\* exactly when the sum passes 2^64 - 1; such a token is refused by
\* ReadConnectToken.
GenerateWraps ==
    (tok.phase = "expiry" /\ tok.kind = "generate") =>
        /\ ~tok.err
        /\ tok.create = tok.now
        /\ tok.expire = U64Add(tok.now, tok.tokenExpiry)
        /\ Later(tok.create, tok.expire)
           <=> (tok.tokenExpiry # U64Zero
                /\ ~Later(U64Neg(tok.now), tok.tokenExpiry))
        /\ Later(tok.create, tok.expire) => tok.readErr

(***************************************************************************)
(* The IPv6 addresses of SpecShared: 2001:db8::102 and ::1, alone or after *)
(* an IPv4 server, read into a record with allocated keys.                 *)
(***************************************************************************)
IsIPv6(addr) == Len(addr.ip) = 16

IPv6Read ==
    /\ tok.phase = "shared" /\ tok.in.bufferLen = CONNECT_TOKEN_BYTES
    /\ tok.in.receiver = "made"

\* C23: every IPv6 address that WriteShared wrote is read back by ReadShared
\* with the same 16 octets.
IPv6RoundTrip ==
    IPv6Read =>
        /\ ~tok.err /\ ~tok.panic /\ ~tok.back.err
        /\ Len(tok.back.shared.ServerAddrs) = Len(tok.in.serverAddrs)
        /\ \A i \in 1..Len(tok.in.serverAddrs) :
               IsIPv6(tok.in.serverAddrs[i]) =>
                   tok.back.shared.ServerAddrs[i].ip = tok.in.serverAddrs[i].ip

\* What the code does with each pair of octets: the first is lost and read
\* back as 0, the second is kept.
IPv6Halved ==
    IPv6Read =>
        /\ ~tok.err /\ ~tok.panic /\ ~tok.back.err
        /\ Len(tok.back.shared.ServerAddrs) = Len(tok.in.serverAddrs)
        /\ \A i \in 1..Len(tok.in.serverAddrs) :
               IsIPv6(tok.in.serverAddrs[i]) =>
                   /\ IsIPv6(tok.back.shared.ServerAddrs[i])
                   /\ \A k \in 1..8 :
                          /\ tok.back.shared.ServerAddrs[i].ip[2 * k - 1] = 0
                          /\ tok.back.shared.ServerAddrs[i].ip[2 * k]
                                 = tok.in.serverAddrs[i].ip[2 * k]

\* An IPv4 address is read back as written.
IPv4RoundTrip ==
    IPv6Read =>
        \A i \in 1..Len(tok.in.serverAddrs) :
            ~IsIPv6(tok.in.serverAddrs[i]) =>
                tok.back.shared.ServerAddrs[i].ip = tok.in.serverAddrs[i].ip

(***************************************************************************)
(* SpecHostile: the receive path on arbitrary bytes.  A buffer is empty,   *)
(* or a prefix byte of any type nibble alone or followed by zero bytes, or *)
(* an authentic frame cut short; packetLen is any int.                     *)
(***************************************************************************)
HostileNibbles == 0..15

HostileCuts == {1, 2, 9, 10, 17, 18, 21}

HostileLens == {-1, 0, 1, 17, 18, 1062, 2048}

HostileDatagrams ==
    {Datagram(t, U64(5), WireBody(t, KeyA, ProtocolA),
              IF t = ConnectionRequest THEN PrivateKey ELSE KeyA, ProtocolA) :
        t \in 0..(ConnectionNumPackets - 1)}

HostileShapes ==
    {[kind |-> "empty", type |-> 0, high |-> 0, cut |-> 0]}
    \cup [kind : {"prefix"}, type : HostileNibbles, high : {0, 1, 8, 15}, cut : {1, 21}]
    \cup [kind : {"frame"}, type : 0..(ConnectionNumPackets - 1), high : {0},
          cut : HostileCuts \cup {0}]

\* For kind "frame", cut 0 is the whole frame.
HostileFrame(shape) ==
    LET cut(frame) ==
            IF shape.cut = 0 \/ shape.cut > Len(frame) THEN frame
            ELSE SubSeq(frame, 1, shape.cut)
    IN  CASE shape.kind = "empty" -> <<>>
          [] shape.kind = "prefix" ->
                 <<Byte(16 * shape.high + shape.type)>> \o Zeros(shape.cut - 1)
          [] OTHER ->
                 cut(WireFrame(CHOOSE dg \in HostileDatagrams : dg.type = shape.type))

\* NewPacket(packetBuffer), then Read on what it returned.  Peek indexes
\* packetBuffer[0] without a test of the length, and NewPacket returns nil
\* for the types 7..15.
DecodeBuffer(frame, packetLen, protocolId, currentTimestamp, readPacketKey, privateKey, allowedPackets, replayProtection) ==
    LET made(p) ==
            IF "nil" \in DOMAIN p
            THEN [err |-> FALSE, panic |-> TRUE, p |-> p, replay |-> replayProtection]
            ELSE PacketRead(p, frame, MakeSlice(Len(frame)), packetLen, protocolId,
                            currentTimestamp, readPacketKey, privateKey, allowedPackets,
                            replayProtection)
    IN  IF Len(frame) = 0
        THEN [err |-> FALSE, panic |-> TRUE, p |-> NilToken, replay |-> replayProtection]
        ELSE made(NewPacket(frame, MakeSlice(Len(frame))))

InitHostile ==
    /\ Init!1 /\ Init!2 /\ Init!4 /\ Init!5 /\ Init!6 /\ Init!7 /\ Init!8
    /\ \E shape \in HostileShapes :
           rx \in [phase : {"in"}, shape : {shape},
                   packetLen : HostileLens \cup {Len(HostileFrame(shape))}]

DecodeHostile ==
    /\ rx.phase = "in"
    /\ LET read(frame, packetLen, r) ==
               /\ rx' = [phase |-> "hostile", shape |-> rx.shape,
                         len |-> Len(frame), packetLen |-> packetLen,
                         err |-> r.err, panic |-> r.panic,
                         isNil |-> "nil" \in DOMAIN r.p]
               /\ replay' = r.replay.rp
           sized(frame, packetLen) ==
               read(frame, packetLen,
                    DecodeBuffer(frame, packetLen, ProtocolA, CurrentTimestamp, KeyA,
                                 PrivateKey, AllAllowed, [present |-> TRUE, rp |-> replay]))
       IN  sized(HostileFrame(rx.shape), rx.packetLen)
    /\ UNCHANGED <<sq, tx, seen, accepted, tok, instance>>

NextHostile == DecodeHostile

SpecHostile == InitHostile /\ [][NextHostile]_vars

\* C24: for every buffer and every packetLen, peeking the type and Read end
\* in a returned error or a packet, never in a panic.
HostileTolerated == rx.phase = "hostile" => ~rx.panic

\* Where decoding panics: on the empty buffer (Peek), on a type nibble of
\* 7..15 (Read on the nil packet), and on a request whose buffer ends inside
\* the protocol id while packetLen is that of a request (ReadUint64, as in
\* ShortBufferError).  Everything else ends in an error or a packet.
HostilePanics ==
    rx.phase = "hostile" =>
        (rx.panic <=> \/ rx.len = 0
                      \/ rx.shape.type >= ConnectionNumPackets
                      \/ /\ rx.shape.kind = "frame" /\ rx.shape.type = ConnectionRequest
                         /\ rx.packetLen = 1 + VERSION_INFO_BYTES + 8 + 8 + 8
                                           + CONNECT_TOKEN_PRIVATE_BYTES
                         /\ rx.len \in (1 + VERSION_INFO_BYTES + 1)..(1 + VERSION_INFO_BYTES + 7))

\* A buffer of a known type with packetLen its length is decoded without a
\* panic.
KnownTypeTolerated ==
    (rx.phase = "hostile" /\ rx.len > 0 /\ rx.packetLen = rx.len
     /\ rx.shape.type < ConnectionNumPackets) => ~rx.panic

(***************************************************************************)
(* The window after a rejected datagram, in SpecDecode: a KeepAlive,       *)
(* Payload or Disconnect sealed under another key or for another protocol  *)
(* id, a payload of a wrong size, or a type the mask does not allow.       *)
(***************************************************************************)
RxRejected == rx.phase = "out" /\ Protected(rx.dg.type) /\ (rx.err \/ rx.panic)

\* C26: a KeepAlive, Payload or Disconnect datagram that is rejected leaves
\* the replay window as it was, and the authentic packet with the same
\* sequence is accepted afterwards.
RejectedLeavesWindow ==
    RxRejected =>
        /\ replay = rx.before
        /\ \A t \in ProtectedTypes : ~WouldReject(t, rx.dg.sequence)

\* A datagram of a type the mask does not allow is rejected before the
\* window is consulted.
DisallowedLeavesWindow ==
    (RxRejected /\ rx.allowed = 0) =>
        /\ replay = rx.before
        /\ \A t \in ProtectedTypes : ~WouldReject(t, rx.dg.sequence)

\* For an allowed type validateSequence has recorded the sequence before
\* DecryptAead is called: a datagram that fails authentication, or whose
\* plaintext has a wrong size, leaves its sequence in the window, and the
\* authentic packet with that sequence is then rejected as a replay.
ForgedEntersWindow ==
    (RxRejected /\ rx.allowed = 1) =>
        /\ ~rx.panic
        /\ replay = AlreadyReceived(rx.before, rx.dg.sequence).rp
        /\ replay # rx.before
        /\ \A t \in ProtectedTypes : WouldReject(t, rx.dg.sequence)

(***************************************************************************)
(* The ports of SpecShared's lists of two servers: 40000 then 513, and 513 *)
(* then 40001.                                                             *)
(***************************************************************************)
\* C27: ReadShared decodes each endpoint of a list on its own: every port
\* read is the port written at that place.
PortsIndependent ==
    (IPv6Read /\ Len(tok.in.serverAddrs) >= 2) =>
        /\ ~tok.err /\ ~tok.panic /\ ~tok.back.err
        /\ Len(tok.back.shared.ServerAddrs) = Len(tok.in.serverAddrs)
        /\ \A i \in 1..Len(tok.in.serverAddrs) :
               tok.back.shared.ServerAddrs[i].port = tok.in.serverAddrs[i].port

\* The bitwise OR of two 16-bit values.
Or16(a, b) ==
    LET bit(x, k) == (x \div (2 ^ k)) % 2
        or[k \in 0..16] ==
            IF k = 16 THEN 0
            ELSE (IF bit(a, k) + bit(b, k) > 0 THEN 2 ^ k ELSE 0) + or[k + 1]
    IN  or[0]

RECURSIVE OrPorts(_, _)
OrPorts(addrs, i) == IF i = 0 THEN 0 ELSE Or16(OrPorts(addrs, i - 1), addrs[i].port)

\* What the code reads: `port` is declared once before the loop and
\* ReadUint16 ORs into it, so the i-th port read is the OR of the first i
\* ports written; the first is read as written.
PortsAccumulate ==
    IPv6Read =>
        /\ ~tok.err /\ ~tok.panic /\ ~tok.back.err
        /\ Len(tok.back.shared.ServerAddrs) = Len(tok.in.serverAddrs)
        /\ \A i \in 1..Len(tok.in.serverAddrs) :
               tok.back.shared.ServerAddrs[i].port = OrPorts(tok.in.serverAddrs, i)

(***************************************************************************)
(* SpecClient: a connected client instance receives the client's authentic *)
(* KeepAlive and Disconnect datagrams against its window, in any order and *)
(* with repetitions, and is cleared in between.  The sequences are below   *)
(* 256, so that none is too old.  `seen` holds the sequences presented     *)
(* since the instance was made or cleared last.                            *)
(***************************************************************************)
MaxClientSteps == 4

ClientSequences == {U64Zero, U64(5), U64(255)}

ClientDatagrams ==
    {Datagram(t, sequence, WireBody(t, KeyA, ProtocolA), KeyA, ProtocolA) :
        t \in {ConnectionKeepAlive, ConnectionDisconnect}, sequence \in ClientSequences}

\* The instance the server keeps for client 7 once it is connected.
ConnectedClient ==
    [NewClientInstance EXCEPT !.clientId = U64(7), !.clientIndex = 0,
                              !.connected = TRUE, !.confirmed = TRUE,
                              !.protocolId = ProtocolA, !.address = <<AddrV4>>,
                              !.queued = 1]

InitClient ==
    /\ Init!1 /\ Init!2 /\ Init!4 /\ Init!5 /\ Init!6 /\ Init!7
    /\ rx = [phase |-> "client", n |-> 0, clears |-> 0, op |-> "new", earlier |-> {}]
    /\ instance = ConnectedClient

\* Read of a datagram with the instance's window.
ClientReceive ==
    /\ rx.n < MaxClientSteps
    /\ \E dg \in ClientDatagrams :
           LET read(r) ==
                   /\ rx' = [phase |-> "client", n |-> rx.n + 1, clears |-> rx.clears,
                             op |-> "receive", earlier |-> rx.earlier, dg |-> dg,
                             fresh |-> dg.sequence \notin seen,
                             err |-> r.err, panic |-> r.panic]
                   /\ instance' = [instance EXCEPT !.replayProtection = r.replay.rp]
                   /\ seen' = seen \cup {dg.sequence}
                   /\ accepted' = IF r.err \/ r.panic THEN accepted
                                  ELSE Append(accepted, dg.sequence)
           IN  read(Decode(WireFrame(dg), instance.protocolId, CurrentTimestamp, KeyA,
                           PrivateKey, AllAllowed, instance.replayProtection))
    /\ UNCHANGED <<sq, tx, replay, tok>>

\* `earlier` holds the sequences accepted before the last Clear.
ClientClear ==
    /\ rx.n < MaxClientSteps
    /\ rx' = [phase |-> "client", n |-> rx.n + 1, clears |-> rx.clears + 1,
              op |-> "clear", earlier |-> rx.earlier \cup {accepted[i] : i \in 1..Len(accepted)}]
    /\ instance' = Clear(instance)
    /\ seen' = {}
    /\ accepted' = <<>>
    /\ UNCHANGED <<sq, tx, replay, tok>>

NextClient == ClientReceive \/ ClientClear

SpecClient == InitClient /\ [][NextClient]_vars

\* C25: Clear returns the replay window to its initial state: after it, as
\* for a new instance, a sequence is accepted when it is presented for the
\* first time, sequence 0 and the sequences accepted before the Clear
\* included, and rejected when it is presented again.
ClearResetsWindow ==
    /\ (rx.op = "receive") => ~rx.panic /\ (rx.err <=> ~rx.fresh)
    /\ (rx.op = "clear") => instance.replayProtection = NewReplayProtection
    /\ (rx.op = "new") => instance.replayProtection = NewReplayProtection

\* Sequence 0 was accepted, the instance was cleared, and 0 is accepted again.
ClearResetsWitness ==
    /\ rx.op = "receive" /\ rx.clears > 0
    /\ rx.dg.sequence = U64Zero /\ U64Zero \in rx.earlier
    /\ ~rx.err /\ accepted = <<U64Zero>>

\* After the Clear sequence 0 was accepted, and it is rejected the second
\* time.
ClearedOnceWitness ==
    /\ rx.op = "receive" /\ rx.clears > 0
    /\ rx.dg.sequence = U64Zero /\ U64Zero \in rx.earlier
    /\ rx.err /\ accepted = <<U64Zero>>

\* What else Clear leaves: an instance that is not connected, with sequence
\* 0 for its next packet.
ClearedInstance ==
    rx.op = "clear" =>
        /\ ~instance.connected /\ ~instance.confirmed
        /\ instance.sequence = U64Zero /\ instance.lastSendTime = 0
        /\ instance.address = <<>> /\ instance.clientIndex = -1
        /\ instance.encryptionIndex = -1 /\ instance.queued = 0

(***************************************************************************)
(* SpecSend: a connected client instance is sent packets, one SendPacket   *)
(* after the other with no Clear in between, with the client's send key or *)
(* with no key, the socket write failing or not.  `tx` holds the last call *)
(* and `sent` the sequences Write was given when it returned no error.  A  *)
(* panic ends the run.                                                     *)
(***************************************************************************)
MaxSends == 3

SendPackets ==
    {ZeroPacket(ConnectionDenied), ZeroPacket(ConnectionDisconnect),
     [ZeroPacket(ConnectionKeepAlive) EXCEPT !.ClientIndex = 3, !.MaxClients = 60],
     NewPayloadPacket(Pattern(2))}

InitSend ==
    /\ Init!1 /\ Init!3 /\ Init!4 /\ Init!5 /\ Init!6 /\ Init!7
    /\ tx = [phase |-> "send", n |-> 0, sent |-> <<>>, panic |-> FALSE]
    /\ instance = ConnectedClient

ClientSend ==
    /\ tx.n < MaxSends /\ ~tx.panic
    /\ \E packet \in SendPackets, writePacketKey \in {KeyA, NilKey}, connErr \in BOOLEAN :
           LET sentPacket(s) ==
                   /\ tx' = [phase |-> "send", n |-> tx.n + 1,
                             sent |-> IF s.write = "nil"
                                      THEN Append(tx.sent, instance.sequence)
                                      ELSE tx.sent,
                             panic |-> s.panic, err |-> s.err, write |-> s.write,
                             type |-> packet.type, keyed |-> writePacketKey # NilKey,
                             connErr |-> connErr,
                             serverTime |-> 10 * (tx.n + 1), before |-> instance]
                   /\ instance' = s.c
           IN  sentPacket(SendPacket(instance, packet, writePacketKey, 10 * (tx.n + 1),
                                     FALSE, connErr))
    /\ UNCHANGED <<sq, rx, replay, seen, accepted, tok>>

NextSend == ClientSend

SpecSend == InitSend /\ [][NextSend]_vars

Called == tx.phase = "send" /\ tx.n > 0

\* C28: the sequences given to Write for the packets written are 0, 1, 2,
\* ..., each once; a call whose Write succeeds adds 1 to the sequence and
\* sets lastSendTime, whether the socket write fails or not, and a call whose
\* Write fails returns an error and leaves both as they were.
SendSequences ==
    Called =>
        /\ \A i \in 1..Len(tx.sent) : tx.sent[i] = U64(i - 1)
        /\ tx.write = "nil" =>
              /\ ~tx.err /\ ~tx.panic
              /\ instance.sequence = U64Inc(tx.before.sequence, 1)
              /\ instance.lastSendTime = tx.serverTime
        /\ tx.write = "error" =>
              /\ tx.err /\ ~tx.panic
              /\ instance.sequence = tx.before.sequence
              /\ instance.lastSendTime = tx.before.lastSendTime

\* The same for the calls that return: no sequence is given to Write twice,
\* a written packet moves the sequence by 1 with or without a socket error,
\* a failed Write moves nothing.
SendSequencesReturned ==
    (Called /\ ~tx.panic) =>
        /\ \A i \in 1..Len(tx.sent) : tx.sent[i] = U64(i - 1)
        /\ instance = IF tx.write = "nil"
                      THEN [tx.before EXCEPT !.sequence = U64Inc(tx.before.sequence, 1),
                                             !.lastSendTime = tx.serverTime]
                      ELSE tx.before
        /\ tx.err <=> tx.write = "error"

\* Which calls panic.  For a KeepAlive or Payload packet Write returns, with
\* a nil error, a count beyond the 1220 bytes of packetBuffer, and
\* c.packetBuffer[:bytesWritten] is out of range.  DeniedPacket.Write
\* without a key panics itself, on start[:-1].  The sequence stays.
SendPanics ==
    Called =>
        /\ tx.write = "nil" <=> tx.keyed
        /\ tx.write = "panic" <=> (~tx.keyed /\ tx.type = ConnectionDenied)
        /\ tx.panic <=> \/ tx.write = "panic"
                        \/ tx.keyed /\ tx.type \in {ConnectionKeepAlive, ConnectionPayload}
        /\ tx.panic => instance = tx.before

====
